---- MODULE Spec2Model ----
(***************************************************************************)
(* dbsync: reconciliation of a target ("prod") PostgreSQL database with a  *)
(* reference ("test") database.  The module models                         *)
(*   - the schema model of src/src/dbsync/database.py,                     *)
(*   - the diff engine _compute_diff of src/src/dbsync/runner.py,          *)
(*   - the reconciler run_sync with its operator prompts, and              *)
(*   - data sync (_sync_data, _select_sync_column) with the Inspector's    *)
(*     DML (insert_rows with the NULL-conflict protocol, update_rows).     *)
(***************************************************************************)
EXTENDS Integers, Sequences, FiniteSets, TLC

(***************************************************************************)
(* Bounds of the model.                                                    *)
(***************************************************************************)
\* number of table names the databases may use
NumTables == 2
\* number of column names the snapshots given to the diff engine may use
NumCols == 3
\* invalid lines the operator may type at one prompt before a valid one
MaxReprompts == 1
\* nested insert_rows retries after which the model lets Python's recursion
\* limit end the run
MaxDepth == 3
\* rows a table may hold at the start
MaxRows == 1
\* rows of a batch passed to insert_rows directly, and batches passed to one
\* Inspector
MaxBatchRows == 2
MaxBatches == 2
\* runs of run_sync in a row
MaxRuns == 2
\* operations and prompts of one run whose connections are followed
MaxCalls == 3

(***************************************************************************)
(* Names.  Python's sorted() and PostgreSQL's ORDER BY order names as      *)
(* strings; the sequences below list the names in that ascending order.    *)
(***************************************************************************)
TableOrder == <<"a", "b", "c">>
ColOrder == <<"id", "v", "w", "z">>

TableNames == {TableOrder[i] : i \in 1..NumTables}
ColNames == {ColOrder[i] : i \in 1..NumCols}

\* Python's None / SQL NULL
None == "<None>"

\* the elements of a sequence
Range(s) == {s[i] : i \in DOMAIN s}

\* sorted(S) for a set S of column names
sorted(S) == SelectSeq(ColOrder, LAMBDA n : n \in S)

(***************************************************************************)
(* Schema model (database.py: ColumnSchema, TableSchema, SchemaSnapshot).  *)
(* A snapshot is a mapping name -> TableSchema with an iteration order: it *)
(* is modelled as the sequence of its tables, names pairwise distinct.     *)
(***************************************************************************)
ColumnSchema(name, column_type, is_nullable, default) ==
    [name |-> name, column_type |-> column_type,
     is_nullable |-> is_nullable, default |-> default]

TableSchema(name, columns, primary_key) ==
    [name |-> name, columns |-> columns, primary_key |-> primary_key]

\* [col.name for col in columns]
NamesOfColumns(columns) == [k \in DOMAIN columns |-> columns[k].name]

\* {col.name for col in table.columns}
ColNamesOf(table) == {table.columns[i].name : i \in DOMAIN table.columns}

\* name in schema.tables
HasTable(schema, name) == \E i \in DOMAIN schema : schema[i].name = name

\* schema.tables[name]
TableOf(schema, name) ==
    schema[CHOOSE i \in DOMAIN schema : schema[i].name = name]

\* schema.tables.keys()
TableNamesOf(schema) == {schema[i].name : i \in DOMAIN schema}

(***************************************************************************)
(* Ordered dictionaries (dict[str, list]) as sequences of entries.         *)
(***************************************************************************)
DictHas(d, k) == \E i \in DOMAIN d : d[i].table = k

DictGet(d, k) == d[CHOOSE i \in DOMAIN d : d[i].table = k].columns

DictKeys(d) == {d[i].table : i \in DOMAIN d}

\* d[k] = v
DictSet(d, k, v) ==
    IF DictHas(d, k)
    THEN [i \in DOMAIN d |->
            IF d[i].table = k THEN [table |-> k, columns |-> v] ELSE d[i]]
    ELSE Append(d, [table |-> k, columns |-> v])

\* d.setdefault(k, []).extend(v)
DictExtend(d, k, v) ==
    IF DictHas(d, k)
    THEN [i \in DOMAIN d |->
            IF d[i].table = k
            THEN [table |-> k, columns |-> d[i].columns \o v] ELSE d[i]]
    ELSE Append(d, [table |-> k, columns |-> v])

(***************************************************************************)
(* Diff engine (runner.py: SchemaDiff, _compute_diff).                     *)
(***************************************************************************)
SchemaDiff(new_tables, missing_tables, orphan_columns, missing_columns) ==
    [new_tables |-> new_tables, missing_tables |-> missing_tables,
     orphan_columns |-> orphan_columns, missing_columns |-> missing_columns]

EmptyDiff == SchemaDiff(<<>>, <<>>, <<>>, <<>>)

\* line 68: table.name not in prod_schema.tables
IsNewTable(table, prod_schema) == ~HasTable(prod_schema, table.name)

\* mutant: every column of the target table counts as extra
M_ExtraColumns_all(prod_col_names, test_col_names) == prod_col_names

\* line 77: extra = prod_col_names - test_col_names
ExtraColumns(prod_col_names, test_col_names) == prod_col_names \ test_col_names

\* mutant: the extra names are listed in descending instead of ascending order
M_OrphanListUnsorted(extra) ==
    LET s == sorted(extra) IN [i \in DOMAIN s |-> s[Len(s) + 1 - i]]

\* line 84: sorted(extra)
OrphanList(extra) == sorted(extra)

\* mutant: columns are compared as whole records instead of by name
M_MissingColumnsByRecord(table, prod_table) ==
    SelectSeq(table.columns, LAMBDA col : col \notin Range(prod_table.columns))

\* mutant: the membership test is inverted
M_MissingColumnsInverted(table, prod_table) ==
    SelectSeq(table.columns, LAMBDA col : col.name \in ColNamesOf(prod_table))

\* lines 73, 86: prod_col_names = {col.name for col in prod_table.columns};
\* [col for col in table.columns if col.name not in prod_col_names]
MissingColumns(table, prod_table) ==
    LET prod_col_names == ColNamesOf(prod_table)
    IN  SelectSeq(table.columns, LAMBDA col : col.name \notin prod_col_names)

\* lines 72-93: the comparison of one table present in both snapshots
DiffCommonTable(table, prod_table, d) ==
    LET prod_col_names == ColNamesOf(prod_table)
        test_col_names == ColNamesOf(table)
        extra == ExtraColumns(prod_col_names, test_col_names)
        missing == MissingColumns(table, prod_table)
        d1 == IF extra # {}
              THEN [d EXCEPT !.orphan_columns =
                        DictSet(@, table.name, OrphanList(extra))]
              ELSE d
    IN  IF missing # <<>>
        THEN [d1 EXCEPT !.missing_columns = DictExtend(@, table.name, missing)]
        ELSE d1

\* lines 67-93: for table in test_schema.tables.values()
RECURSIVE DiffTestLoop(_, _, _, _)
DiffTestLoop(test_schema, prod_schema, i, d) ==
    IF i > Len(test_schema) THEN d
    ELSE LET table == test_schema[i] IN
         IF IsNewTable(table, prod_schema)
         THEN DiffTestLoop(test_schema, prod_schema, i + 1,
                           [d EXCEPT !.new_tables = Append(@, table)])
         ELSE DiffTestLoop(test_schema, prod_schema, i + 1,
                           DiffCommonTable(table,
                                           TableOf(prod_schema, table.name), d))

\* mutant: the membership test is inverted
M_IsMissingTableInverted(table, test_schema) == HasTable(test_schema, table.name)

\* line 97: table.name not in test_schema.tables
IsMissingTable(table, test_schema) == ~HasTable(test_schema, table.name)

\* lines 96-101: for table in prod_schema.tables.values()
DiffProdLoop(test_schema, prod_schema, d) ==
    [d EXCEPT !.missing_tables =
        SelectSeq(prod_schema, LAMBDA table : IsMissingTable(table, test_schema))]

_compute_diff(test_schema, prod_schema) ==
    DiffProdLoop(test_schema, prod_schema,
                 DiffTestLoop(test_schema, prod_schema, 1, EmptyDiff))

(***************************************************************************)
(* Operator input: a line read by input() is a sequence of characters.     *)
(***************************************************************************)
\* end of input: input() raises EOFError
EOF == <<"<EOF>">>

IsSpace(c) == c = " "

\* str.strip()
RECURSIVE strip(_)
strip(s) ==
    IF s = <<>> THEN s
    ELSE IF IsSpace(Head(s)) THEN strip(Tail(s))
    ELSE IF IsSpace(s[Len(s)]) THEN strip(SubSeq(s, 1, Len(s) - 1))
    ELSE s

LowerChar(c) ==
    LET upper == <<"A", "B", "C", "D", "E", "F", "G", "H", "I", "J", "K", "L",
                   "M", "N", "O", "P", "Q", "R", "S", "T", "U", "V", "W", "X",
                   "Y", "Z">>
        small == <<"a", "b", "c", "d", "e", "f", "g", "h", "i", "j", "k", "l",
                   "m", "n", "o", "p", "q", "r", "s", "t", "u", "v", "w", "x",
                   "y", "z">>
    IN  IF \E k \in DOMAIN upper : upper[k] = c
        THEN small[CHOOSE k \in DOMAIN upper : upper[k] = c]
        ELSE c

\* str.lower()
lower(s) == [k \in DOMAIN s |-> LowerChar(s[k])]

(***************************************************************************)
(* A PostgreSQL database: the tables of schema public, each with its       *)
(* columns in attribute-number order, its primary key, its rows and its    *)
(* FOREIGN KEY constraints.  A row maps the table's column names to        *)
(* values.  No statement of database.py declares a foreign key, so a table *)
(* built here has none.                                                    *)
(***************************************************************************)
DbTable(columns, primary_key, rows) ==
    [columns |-> columns, primary_key |-> primary_key, rows |-> rows,
     foreign_keys |-> <<>>]

\* a FOREIGN KEY constraint as tests/test_runner.py lines 32-46 describe it
ForeignKeySchema(constraint_name, columns, referenced_table, referenced_columns) ==
    [constraint_name |-> constraint_name, columns |-> columns,
     referenced_table |-> referenced_table,
     referenced_columns |-> referenced_columns]

\* the table with the constraints fks declared on it
WithForeignKeys(table, fks) == [table EXCEPT !.foreign_keys = fks]

\* database.py lines 137-179: fetch_schema.  Both catalog queries order by
\* table name; a table without columns yields no row of COLUMNS_QUERY.
fetch_schema(db) ==
    LET names == SelectSeq(TableOrder,
                           LAMBDA n : n \in DOMAIN db /\ db[n].columns # <<>>)
    IN  [k \in DOMAIN names |->
            TableSchema(names[k], db[names[k]].columns,
                        db[names[k]].primary_key)]

\* str.lower() of a type or default expression
RECURSIVE LowerStr(_)
LowerStr(s) ==
    IF s = "" THEN ""
    ELSE LowerChar(SubSeq(s, 1, 1)) \o LowerStr(SubSeq(s, 2, Len(s)))

\* needle in s
Contains(needle, s) ==
    \E k \in 1..(Len(s) + 1 - Len(needle)) :
        SubSeq(s, k, k + Len(needle) - 1) = needle

\* bool(column.default)
HasDefault(column) == column.default # None /\ column.default # ""

\* mutant: every integer column is rendered as SERIAL
M_IsSerial_anyInteger(column) ==
    Contains("integer", LowerStr(column.column_type))

\* database.py lines 591-595: the condition of the SERIAL rendering
IsSerial(column) ==
    /\ HasDefault(column)
    /\ Contains("nextval", LowerStr(column.default))
    /\ Contains("integer", LowerStr(column.column_type))

\* database.py lines 574-608: _column_definition.  The parts of the rendered
\* definition, which the code joins with single spaces.
_column_definition(column) ==
    LET column_type == IF IsSerial(column) THEN "SERIAL"
                       ELSE column.column_type
        default_clause ==
            IF IsSerial(column) THEN <<>>
            ELSE (IF ~column.is_nullable THEN <<"NOT NULL">> ELSE <<>>)
                   \o (IF HasDefault(column)
                       THEN <<"DEFAULT " \o column.default>> ELSE <<>>)
    IN  <<column.name, column_type>> \o default_clause

\* the column PostgreSQL creates for a rendered definition: SERIAL is an
\* integer NOT NULL column with a sequence default, and a primary-key column
\* is NOT NULL
CreatedColumn(def, primary_key) ==
    LET not_null == \E k \in 3..Len(def) : def[k] = "NOT NULL"
        defaults == {k \in 3..Len(def) :
                        Len(def[k]) >= 8 /\ SubSeq(def[k], 1, 8) = "DEFAULT "}
        default == IF defaults = {} THEN None
                   ELSE LET k == CHOOSE k \in defaults : TRUE
                        IN  SubSeq(def[k], 9, Len(def[k]))
    IN  IF def[2] = "SERIAL"
        THEN ColumnSchema(def[1], "integer", FALSE, "nextval('s'::regclass)")
        ELSE ColumnSchema(def[1], def[2],
                          ~(not_null \/ def[1] \in Range(primary_key)),
                          default)

\* database.py lines 196-216: create_table
create_table(db, table) ==
    LET column_defs == [k \in DOMAIN table.columns |->
                            _column_definition(table.columns[k])]
        created == DbTable([k \in DOMAIN column_defs |->
                                CreatedColumn(column_defs[k], table.primary_key)],
                           table.primary_key, <<>>)
    IN  [n \in DOMAIN db \cup {table.name} |->
            IF n = table.name THEN created ELSE db[n]]

\* the value existing rows get in a column added with a DEFAULT clause
DefaultValue(default) == IF default = None THEN None ELSE default

\* mutant: the column is not added to the target
M_add_column_noop(db, table_name, column) == db

\* mutant: add_column renders the column as create_table does
M_AddColumnParts_rendered(column) == _column_definition(column)

\* database.py lines 229-231: the parts of the column in ALTER TABLE ... ADD
\* COLUMN: no NOT NULL, and a DEFAULT clause iff column.default is truthy
AddColumnParts(column) ==
    <<column.name, column.column_type>>
      \o (IF HasDefault(column) THEN <<"DEFAULT " \o column.default>>
          ELSE <<>>)

\* PostgreSQL rejects ADD COLUMN when the definition says NOT NULL, gives no
\* default and the table has rows
AddRejected(db, table_name, column) ==
    LET added == CreatedColumn(AddColumnParts(column), <<>>)
    IN  /\ ~added.is_nullable
        /\ added.default = None
        /\ db[table_name].rows # <<>>

\* database.py lines 218-236: add_column, when the statement is accepted
add_column(db, table_name, column) ==
    LET added == CreatedColumn(AddColumnParts(column), <<>>)
        default == added.default
        t == db[table_name]
    IN  [db EXCEPT ![table_name] =
            DbTable(Append(t.columns, added), t.primary_key,
                    [k \in DOMAIN t.rows |->
                        [c \in DOMAIN t.rows[k] \cup {column.name} |->
                            IF c = column.name THEN DefaultValue(default)
                            ELSE t.rows[k][c]]])]

\* database.py lines 238-246: drop_table
drop_table(db, table_name) == [n \in DOMAIN db \ {table_name} |-> db[n]]

\* database.py lines 248-259: drop_column.  PostgreSQL drops a primary key
\* that contains the column with it.
drop_column(db, table_name, column_name) ==
    LET t == db[table_name]
    IN  [db EXCEPT ![table_name] =
            DbTable(SelectSeq(t.columns, LAMBDA c : c.name # column_name),
                    IF column_name \in Range(t.primary_key)
                    THEN <<>> ELSE t.primary_key,
                    [k \in DOMAIN t.rows |->
                        [c \in DOMAIN t.rows[k] \ {column_name} |->
                            t.rows[k][c]]])]

(***************************************************************************)
(* Row access and DML of the Inspector (database.py).                      *)
(***************************************************************************)
\* tuple(row[col] for col in key)
Project(row, key) == [k \in DOMAIN key |-> row[key[k]]]

\* database.py lines 261-290: fetch_primary_key_values
fetch_primary_key_values(db, table_name, primary_key) ==
    IF primary_key = <<>> THEN {}
    ELSE {Project(db[table_name].rows[k], primary_key) :
            k \in DOMAIN db[table_name].rows}

\* mutant: COUNT(*) in place of COUNT(col)
M_is_column_unique_count_rows(db, table_name, column_name) ==
    LET rows == db[table_name].rows
        distinct == {rows[k][column_name] : k \in DOMAIN rows} \ {None}
    IN  Len(rows) = Cardinality(distinct) /\ Len(rows) > 0

\* database.py lines 292-313: is_column_unique.  COUNT(col) counts the
\* non-NULL values of the column.
is_column_unique(db, table_name, column_name) ==
    LET rows == db[table_name].rows
        counted == {k \in DOMAIN rows : rows[k][column_name] # None}
        distinct == {rows[k][column_name] : k \in counted}
    IN  Cardinality(counted) = Cardinality(distinct) /\ Cardinality(counted) > 0

\* database.py lines 315-342: fetch_rows
fetch_rows(db, table_name, columns) ==
    IF columns = <<>> THEN <<>>
    ELSE [k \in DOMAIN db[table_name].rows |->
            [c \in Range(columns) |-> db[table_name].rows[k][c]]]

\* the first column, in attribute order, in which a row violates NOT NULL
NotNullViolations(t, full) ==
    SelectSeq(t.columns, LAMBDA c : ~c.is_nullable /\ full[c.name] = None)

\* a row of the table t with the same primary-key value exists
PrimaryKeyTaken(t, full, except) ==
    /\ t.primary_key # <<>>
    /\ \E k \in DOMAIN t.rows \ except :
          Project(t.rows[k], t.primary_key) = Project(full, t.primary_key)

\* one INSERT INTO table (columns) VALUES (...): the columns not listed get
\* their default
InsertOne(t, columns, row) ==
    LET full == [c \in ColNamesOf(t) |->
                    IF c \in Range(columns) THEN row[c]
                    ELSE LET col == CHOOSE x \in Range(t.columns) : x.name = c
                         IN  DefaultValue(col.default)]
        nn == NotNullViolations(t, full)
    IN  IF nn # <<>>
        THEN [error |-> "NotNullViolation", column |-> nn[1].name, table |-> t]
        ELSE IF PrimaryKeyTaken(t, full, {})
        THEN [error |-> "UniqueViolation", column |-> "", table |-> t]
        ELSE [error |-> "", column |-> "",
              table |-> [t EXCEPT !.rows = Append(@, full)]]

\* database.py lines 376-380: cur.executemany(statement, params), statement
\* after statement until one fails
RECURSIVE InsertMany(_, _, _, _)
InsertMany(t, columns, rows, k) ==
    IF k > Len(rows) THEN [error |-> "", column |-> "", table |-> t]
    ELSE LET r == InsertOne(t, columns, rows[k])
         IN  IF r.error # "" THEN r
             ELSE InsertMany(r.table, columns, rows, k + 1)

\* mutant: the UPDATE statement has no WHERE clause
M_WhereMatches_always(target, sync_key, row) == TRUE

\* a target row matches WHERE key = values: NULL equals nothing
WhereMatches(target, sync_key, row) ==
    \A k \in DOMAIN sync_key :
        /\ row[sync_key[k]] # None
        /\ target[sync_key[k]] = row[sync_key[k]]

\* one UPDATE table SET update_cols = ... WHERE sync_key = ...
UpdateOne(t, sync_key, update_cols, row) ==
    LET hit == {k \in DOMAIN t.rows : WhereMatches(t.rows[k], sync_key, row)}
        new_rows == [k \in DOMAIN t.rows |->
                        IF k \in hit
                        THEN [c \in DOMAIN t.rows[k] |->
                                IF c \in Range(update_cols) THEN row[c]
                                ELSE t.rows[k][c]]
                        ELSE t.rows[k]]
        t2 == [t EXCEPT !.rows = new_rows]
    IN  IF \E k \in hit : NotNullViolations(t, new_rows[k]) # <<>>
        THEN [error |-> "NotNullViolation", column |-> "", table |-> t]
        ELSE IF /\ t.primary_key # <<>>
                /\ \E k \in hit : \E m \in DOMAIN new_rows :
                      /\ m # k
                      /\ Project(new_rows[k], t.primary_key) =
                         Project(new_rows[m], t.primary_key)
        THEN [error |-> "UniqueViolation", column |-> "", table |-> t]
        ELSE [error |-> "", column |-> "", table |-> t2]

\* database.py lines 483-485: cur.executemany(statement, params)
RECURSIVE UpdateMany(_, _, _, _, _)
UpdateMany(t, sync_key, update_cols, rows, k) ==
    IF k > Len(rows) THEN [error |-> "", column |-> "", table |-> t]
    ELSE LET r == UpdateOne(t, sync_key, update_cols, rows[k])
         IN  IF r.error # "" THEN r
             ELSE UpdateMany(r.table, sync_key, update_cols, rows, k + 1)

\* mutant: update_rows writes no column
M_UpdateCols_none(columns, sync_key) == <<>>

\* mutant: update_rows writes every column of the column list
M_UpdateCols_all(columns, sync_key) == columns

\* database.py line 451: update_cols = [col for col in columns if col not in sync_key]
UpdateCols(columns, sync_key) ==
    SelectSeq(columns, LAMBDA col : col \notin Range(sync_key))

\* mutant: the value is written into the column of every row
M_replace_every_value(column_name, rows, value) ==
    [k \in DOMAIN rows |->
        [c \in DOMAIN rows[k] \cup {column_name} |->
            IF c = column_name THEN value ELSE rows[k][c]]]

\* database.py lines 546-572: _replace_null_with_default
_replace_null_with_default(column_name, rows, value) ==
    [k \in DOMAIN rows |->
        IF column_name \notin DOMAIN rows[k] \/ rows[k][column_name] = None
        THEN [c \in DOMAIN rows[k] \cup {column_name} |->
                IF c = column_name THEN value ELSE rows[k][c]]
        ELSE rows[k]]

\* database.py lines 492-504: _drop_not_null_constraint.  PostgreSQL refuses
\* to drop NOT NULL from a column of the primary key.
DropNotNullAllowed(db, table_name, column_name) ==
    column_name \notin Range(db[table_name].primary_key)

_drop_not_null_constraint(db, table_name, column_name) ==
    [db EXCEPT ![table_name].columns =
        [k \in DOMAIN @ |->
            IF @[k].name = column_name
            THEN [@[k] EXCEPT !.is_nullable = TRUE] ELSE @[k]]]

\* mutant: any answer that begins with y counts as yes
M_prompt_discard_prefix(answer) ==
    LET s == lower(strip(answer)) IN s # <<>> /\ s[1] = "y"

\* runner.py lines 110-125: _prompt_discard, for the line the operator typed
_prompt_discard(answer) == lower(strip(answer)) = <<"y">>

(***************************************************************************)
(* Sync-key selection and row classification (runner.py).                  *)
(***************************************************************************)
\* the superscript two (U+00B2): a digit for str.isdigit(), but no decimal
\* digit, so int() rejects it
Sup2 == "<sup2>"

\* str.isdigit() for a line of the characters the operator may type
isdigit(s) ==
    s # <<>> /\ \A k \in DOMAIN s : s[k] \in {"0", "1", "2", "3", Sup2}

\* int(s) raises ValueError for a line of digits
IntRaises(s) == \E k \in DOMAIN s : s[k] = Sup2

DigitValue(c) == CASE c = "0" -> 0 [] c = "1" -> 1 [] c = "2" -> 2 [] c = "3" -> 3

\* int(s) for a line of digits
RECURSIVE int(_)
int(s) == IF s = <<>> THEN 0
          ELSE 10 * int(SubSeq(s, 1, Len(s) - 1)) + DigitValue(s[Len(s)])

\* lines 153-155: common_cols = sorted(test_cols & prod_cols)
CommonCols(test_table, prod_table) ==
    sorted(ColNamesOf(test_table) \cap ColNamesOf(prod_table))

\* mutant: every common column counts as a candidate
M_PotentialKeys_all(tdb, pdb, table_name, common_cols) == common_cols

\* mutant: a candidate need only be unique in the reference
M_PotentialKeys_referenceOnly(tdb, pdb, table_name, common_cols) ==
    SelectSeq(common_cols, LAMBDA col : is_column_unique(tdb, table_name, col))

\* mutant: the candidates come in descending name order
M_PotentialKeys_descending(tdb, pdb, table_name, common_cols) ==
    LET keys == SelectSeq(common_cols,
                          LAMBDA col : /\ is_column_unique(tdb, table_name, col)
                                       /\ is_column_unique(pdb, table_name, col))
    IN  [k \in DOMAIN keys |-> keys[Len(keys) + 1 - k]]

\* lines 163-169: the common columns unique in both databases
PotentialKeys(tdb, pdb, table_name, common_cols) ==
    SelectSeq(common_cols,
              LAMBDA col : /\ is_column_unique(tdb, table_name, col)
                           /\ is_column_unique(pdb, table_name, col))

\* lines 203-204: int(choice) raises ValueError, unless line 196 returned
KeyRaises(choice, primary_key) ==
    /\ ~(choice = <<"p">> /\ primary_key # <<>>)
    /\ isdigit(choice)
    /\ IntRaises(choice)

\* lines 194-212: the key a typed line selects; <<>> stands for a re-prompt
SelectedKey(choice, potential_keys, primary_key) ==
    IF choice = <<"p">> /\ primary_key # <<>> THEN primary_key
    ELSE IF /\ isdigit(choice)
            /\ 0 <= int(choice) - 1
            /\ int(choice) - 1 < Len(potential_keys)
         THEN <<potential_keys[int(choice)]>>
         ELSE <<>>

\* lines 262-265: shared_columns
SharedColumns(test_table, prod_table) ==
    LET prod_columns == ColNamesOf(prod_table)
    IN  SelectSeq(NamesOfColumns(test_table.columns),
                  LAMBDA name : name \in prod_columns)

\* mutant: no row counts as existing
M_IsExisting_never(row, sync_key, prod_sync_values) == FALSE

\* lines 287-288: the row's sync-key value is among the target's
IsExisting(row, sync_key, prod_sync_values) ==
    Project(row, sync_key) \in prod_sync_values

\* mutant: no row is held back for a primary-key conflict
M_IsPkConflict_never(row, prod_real_pk, prod_real_pk_values) == FALSE

\* lines 293-295: the row's primary-key value is among the target's
IsPkConflict(row, prod_real_pk, prod_real_pk_values) ==
    /\ prod_real_pk # <<>>
    /\ Project(row, prod_real_pk) \in prod_real_pk_values

\* lines 286-305: row[col] raises KeyError for a column the rows lack
ClassifyRaises(rows, shared_columns, sync_key, prod_sync_values, prod_real_pk) ==
    /\ rows # <<>>
    /\ \/ ~(Range(sync_key) \subseteq Range(shared_columns))
       \/ /\ prod_real_pk # <<>>
          /\ ~(Range(prod_real_pk) \subseteq Range(shared_columns))
          /\ \E k \in DOMAIN rows :
                ~IsExisting(rows[k], sync_key, prod_sync_values)

\* lines 284-305: the three classes of the fetched rows
Classify(rows, sync_key, prod_sync_values, prod_real_pk, prod_real_pk_values) ==
    LET existing(r) == IsExisting(r, sync_key, prod_sync_values)
        conflict(r) == IsPkConflict(r, prod_real_pk, prod_real_pk_values)
    IN  [existing_rows |-> SelectSeq(rows, existing),
         skipped_rows |->
            SelectSeq(rows, LAMBDA r : ~existing(r) /\ conflict(r)),
         missing_rows |->
            SelectSeq(rows, LAMBDA r : ~existing(r) /\ ~conflict(r))]

(***************************************************************************)
(* State.                                                                  *)
(***************************************************************************)
VARIABLES
    pc,         \* position of the run
    tpos,       \* index of the enclosing loop of run_sync / _sync_data
    cpos,       \* index of the inner loop (columns of one table)
    test_db,    \* the reference database
    prod_db,    \* the target database
    test_snap,  \* run_sync: test_snap / _compute_diff: test_schema
    prod_snap,  \* run_sync: prod_snap / _compute_diff: prod_schema
    diff,       \* run_sync: diff / the value _compute_diff returned
    log,        \* the calls on the inspectors and the prompts, in order
    sync,       \* _sync_data: the locals of the table being synced
    call,       \* insert_rows: the rows of the innermost call, its depth and
                \* the column of the NOT NULL violation being handled
    memo,       \* the target inspector's _not_null_decisions
    reprompts,  \* invalid lines typed at the pending prompt
    counters,   \* _sync_data: inserted, updated
    conns       \* the open database connections, each named by its
                \* inspector, its operation and the depth of the call

vars == <<pc, tpos, cpos, test_db, prod_db, test_snap, prod_snap, diff, log,
          sync, call, memo, reprompts, counters, conns>>

\* the state of data sync, and the connections: the operations of the
\* inspectors open and close theirs within one step
syncVars == <<sync, call, memo, reprompts, counters, conns>>

NoSync ==
    [table |-> "", sync_key |-> <<>>, shared_columns |-> <<>>,
     potential_keys |-> <<>>, missing_rows |-> <<>>, existing_rows |-> <<>>,
     skipped_rows |-> <<>>]

NoCall == [rows |-> <<>>, depth |-> 0, table |-> "", column |-> ""]

\* database.py line 135: self._not_null_decisions = {}
NoMemo == [k \in {} |-> [action |-> "", payload |-> None]]

NoCounters == [inserted |-> 0, updated |-> 0]

(***************************************************************************)
(* Inputs of the diff engine: snapshots over TableNames and ColNames, the  *)
(* tables in any iteration order.                                          *)
(***************************************************************************)
\* column attributes: a serial integer key column, and a plain text column
AttrVariants ==
    {[column_type |-> "integer", is_nullable |-> FALSE,
      default |-> "nextval('s'::regclass)"],
     [column_type |-> "text", is_nullable |-> TRUE, default |-> None]}

\* column name lists: every non-empty subset in name order, and the whole
\* set in descending name order
ColumnNameLists ==
    {sorted(S) : S \in (SUBSET ColNames) \ {{}}}
      \cup {[i \in 1..NumCols |-> ColOrder[NumCols + 1 - i]]}

DiffTables(name, a) ==
    {TableSchema(name,
                 [i \in DOMAIN cs |->
                    ColumnSchema(cs[i], a.column_type, a.is_nullable, a.default)],
                 IF a.is_nullable THEN <<>> ELSE <<cs[1]>>) :
        cs \in ColumnNameLists}

\* all sequences of pairwise distinct table names
NameSeqs ==
    UNION {{s \in [1..n -> TableNames] :
                \A i, j \in 1..n : i # j => s[i] # s[j]} : n \in 0..NumTables}

\* the snapshots whose columns all have the attributes a
DiffSnapshotsOf(a) ==
    UNION {{s \in [1..Len(ns) -> UNION {DiffTables(n, a) : n \in TableNames}] :
                \A i \in 1..Len(ns) : s[i].name = ns[i]} : ns \in NameSeqs}

DiffSnapshots == UNION {DiffSnapshotsOf(a) : a \in AttrVariants}

EmptyDb == [n \in {} |-> DbTable(<<>>, <<>>, <<>>)]

InitDiff ==
    /\ pc = "diff"
    /\ test_snap \in DiffSnapshots
    /\ prod_snap \in DiffSnapshots
    /\ diff = EmptyDiff
    /\ tpos = 0
    /\ cpos = 0
    /\ test_db = EmptyDb
    /\ prod_db = EmptyDb
    /\ log = <<>>
    /\ sync = NoSync
    /\ call = NoCall
    /\ memo = NoMemo
    /\ reprompts = 0
    /\ counters = NoCounters
    /\ conns = {}

\* runner.py line 356: diff = _compute_diff(test_snap, prod_snap)
ComputeDiff ==
    /\ pc = "diff"
    /\ diff' = _compute_diff(test_snap, prod_snap)
    /\ pc' = "diffed"
    /\ UNCHANGED <<tpos, cpos, test_db, prod_db, test_snap, prod_snap, log, syncVars>>

NextDiff == ComputeDiff

SpecDiff == InitDiff /\ [][NextDiff]_vars

(***************************************************************************)
(* The reconciler (runner.py: run_sync).                                   *)
(***************************************************************************)
\* what the operator may type at a yes/no prompt
Answers == {<<"y">>, <<" ", "Y", " ">>, <<"y", "e", "s">>, <<>>, EOF}

\* an entry of the log
Event(op, insp, table, cols, text) ==
    [op |-> op, insp |-> insp, table |-> table, cols |-> cols, text |-> text,
     key |-> <<>>, rows |-> <<>>]

\* an entry of the log for a call that carries a key or rows
DataEvent(op, insp, table, cols, key, rows) ==
    [op |-> op, insp |-> insp, table |-> table, cols |-> cols, text |-> <<>>,
     key |-> key, rows |-> rows]

\* the next position of run_sync at or after (phase, a, b): the loops of
\* lines 360-402 skip what is empty
RECURSIVE Seek(_, _, _, _)
Seek(d, phase, a, b) ==
    CASE phase = "create" ->
            IF a <= Len(d.new_tables)
            THEN [pc |-> "create", tpos |-> a, cpos |-> 0]
            ELSE Seek(d, "add", 1, 1)
      [] phase = "add" ->
            IF a > Len(d.missing_columns) THEN Seek(d, "orphan_prompt", 1, 0)
            ELSE IF b > Len(d.missing_columns[a].columns)
                 THEN Seek(d, "add", a + 1, 1)
                 ELSE [pc |-> "add", tpos |-> a, cpos |-> b]
      [] phase = "orphan_prompt" ->
            IF a <= Len(d.orphan_columns)
            THEN [pc |-> "orphan_prompt", tpos |-> a, cpos |-> 0]
            ELSE Seek(d, "missing_prompt", 1, 0)
      [] phase = "orphan_drop" ->
            IF b <= Len(d.orphan_columns[a].columns)
            THEN [pc |-> "orphan_drop", tpos |-> a, cpos |-> b]
            ELSE Seek(d, "orphan_prompt", a + 1, 0)
      [] phase = "missing_prompt" ->
            IF a <= Len(d.missing_tables)
            THEN [pc |-> "missing_prompt", tpos |-> a, cpos |-> 0]
            ELSE [pc |-> "refetch", tpos |-> 0, cpos |-> 0]
      [] OTHER -> [pc |-> phase, tpos |-> a, cpos |-> b]

GoTo(pos) == pc' = pos.pc /\ tpos' = pos.tpos /\ cpos' = pos.cpos

\* mutant: the run goes from the diff straight to the prompts
M_FetchAndDiff_skipsAdditive ==
    /\ pc = "start"
    /\ test_snap' = fetch_schema(test_db)
    /\ prod_snap' = fetch_schema(prod_db)
    /\ diff' = _compute_diff(test_snap', prod_snap')
    /\ log' = log \o <<Event("fetch_schema", "test", "", <<>>, <<>>),
                       Event("fetch_schema", "prod", "", <<>>, <<>>)>>
    /\ GoTo(Seek(diff', "orphan_prompt", 1, 0))
    /\ UNCHANGED <<test_db, prod_db, syncVars>>

\* lines 353-359: both snapshots are fetched and the diff is computed
FetchAndDiff ==
    /\ pc = "start"
    /\ test_snap' = fetch_schema(test_db)
    /\ prod_snap' = fetch_schema(prod_db)
    /\ diff' = _compute_diff(test_snap', prod_snap')
    /\ log' = log \o <<Event("fetch_schema", "test", "", <<>>, <<>>),
                       Event("fetch_schema", "prod", "", <<>>, <<>>)>>
    /\ GoTo(Seek(diff', "create", 1, 1))
    /\ UNCHANGED <<test_db, prod_db, syncVars>>

\* mutant: the table is created through the reference inspector
M_CreateTable_onReference ==
    /\ pc = "create"
    /\ LET table == diff.new_tables[tpos]
       IN  /\ test_db' = create_table(test_db, table)
           /\ log' = Append(log, Event("create_table", "test", table.name,
                                       NamesOfColumns(table.columns), <<>>))
    /\ GoTo(Seek(diff, "create", tpos + 1, 1))
    /\ UNCHANGED <<prod_db, test_snap, prod_snap, diff, syncVars>>

\* lines 360-364: inspector.create_table(table)
CreateTable ==
    /\ pc = "create"
    /\ LET table == diff.new_tables[tpos]
       IN  /\ prod_db' = create_table(prod_db, table)
           /\ log' = Append(log, Event("create_table", "prod", table.name,
                                       NamesOfColumns(table.columns), <<>>))
    /\ GoTo(Seek(diff, "create", tpos + 1, 1))
    /\ UNCHANGED <<test_db, test_snap, prod_snap, diff, syncVars>>

\* lines 366-373: inspector.add_column(table_name, column)
AddColumn ==
    /\ pc = "add"
    /\ LET table_name == diff.missing_columns[tpos].table
           column == diff.missing_columns[tpos].columns[cpos]
           called == Event("add_column", "prod", table_name,
                           <<column.name>>, <<>>)
       IN  IF AddRejected(prod_db, table_name, column)
           THEN /\ log' = log \o <<called, Event("rejected", "prod", table_name,
                                                  <<column.name>>, <<>>)>>
                /\ pc' = "failed"
                /\ UNCHANGED <<tpos, cpos, prod_db>>
           ELSE /\ prod_db' = add_column(prod_db, table_name, column)
                /\ log' = Append(log, called)
                /\ GoTo(Seek(diff, "add", tpos, cpos + 1))
    /\ UNCHANGED <<test_db, test_snap, prod_snap, diff, syncVars>>

\* mutant: end of input at the confirmation counts as the answer no
M_PromptOrphanColumns_eofIsNo ==
    /\ pc = "orphan_prompt"
    /\ \E answer \in Answers :
        LET table_name == diff.orphan_columns[tpos].table
            columns == diff.orphan_columns[tpos].columns
        IN  /\ log' = Append(log, Event("prompt_discard", "", table_name,
                                        columns, answer))
            /\ IF answer # EOF /\ _prompt_discard(answer)
               THEN GoTo(Seek(diff, "orphan_drop", tpos, 1))
               ELSE GoTo(Seek(diff, "orphan_prompt", tpos + 1, 0))
    /\ UNCHANGED <<test_db, prod_db, test_snap, prod_snap, diff, syncVars>>

\* lines 375-376, 384-389: _prompt_discard(columns) for one table
PromptOrphanColumns ==
    /\ pc = "orphan_prompt"
    /\ \E answer \in Answers :
        LET table_name == diff.orphan_columns[tpos].table
            columns == diff.orphan_columns[tpos].columns
        IN  /\ log' = Append(log, Event("prompt_discard", "", table_name,
                                        columns, answer))
            /\ IF answer = EOF
               THEN pc' = "failed" /\ UNCHANGED <<tpos, cpos>>
               ELSE IF _prompt_discard(answer)
                    THEN GoTo(Seek(diff, "orphan_drop", tpos, 1))
                    ELSE GoTo(Seek(diff, "orphan_prompt", tpos + 1, 0))
    /\ UNCHANGED <<test_db, prod_db, test_snap, prod_snap, diff, syncVars>>

\* lines 377-383: inspector.drop_column(table_name, column)
DropColumn ==
    /\ pc = "orphan_drop"
    /\ LET table_name == diff.orphan_columns[tpos].table
           column == diff.orphan_columns[tpos].columns[cpos]
       IN  /\ prod_db' = drop_column(prod_db, table_name, column)
           /\ log' = Append(log, Event("drop_column", "prod", table_name,
                                       <<column>>, <<>>))
    /\ GoTo(Seek(diff, "orphan_drop", tpos, cpos + 1))
    /\ UNCHANGED <<test_db, test_snap, prod_snap, diff, syncVars>>

\* lines 391-392, 398-402: _prompt_discard([table.name])
PromptMissingTable ==
    /\ pc = "missing_prompt"
    /\ \E answer \in Answers :
        LET table == diff.missing_tables[tpos]
        IN  /\ log' = Append(log, Event("prompt_discard", "", table.name,
                                        <<table.name>>, answer))
            /\ IF answer = EOF
               THEN pc' = "failed" /\ UNCHANGED <<tpos, cpos>>
               ELSE IF _prompt_discard(answer)
                    THEN GoTo([pc |-> "drop_table", tpos |-> tpos, cpos |-> 0])
                    ELSE GoTo(Seek(diff, "missing_prompt", tpos + 1, 0))
    /\ UNCHANGED <<test_db, prod_db, test_snap, prod_snap, diff, syncVars>>

\* lines 393-397: inspector.drop_table(table.name)
DropTable ==
    /\ pc = "drop_table"
    /\ LET table == diff.missing_tables[tpos]
       IN  /\ prod_db' = drop_table(prod_db, table.name)
           /\ log' = Append(log, Event("drop_table", "prod", table.name,
                                       <<>>, <<>>))
    /\ GoTo(Seek(diff, "missing_prompt", tpos + 1, 0))
    /\ UNCHANGED <<test_db, test_snap, prod_snap, diff, syncVars>>

\* mutant: data sync starts without the second introspection of the target
M_Refetch_skipped ==
    /\ pc = "refetch"
    /\ GoTo([pc |-> "sync", tpos |-> 1, cpos |-> 0])
    /\ UNCHANGED <<test_db, prod_db, test_snap, prod_snap, diff, log, syncVars>>

\* mutant: the target is introspected again but data sync gets the snapshot
\* taken before the schema changes
M_Refetch_stale ==
    /\ pc = "refetch"
    /\ log' = Append(log, Event("fetch_schema", "prod", "", <<>>, <<>>))
    /\ GoTo([pc |-> "sync", tpos |-> 1, cpos |-> 0])
    /\ UNCHANGED <<test_db, prod_db, test_snap, prod_snap, diff, syncVars>>

\* line 405: prod_snap = inspector.fetch_schema()
Refetch ==
    /\ pc = "refetch"
    /\ prod_snap' = fetch_schema(prod_db)
    /\ log' = Append(log, Event("fetch_schema", "prod", "", <<>>, <<>>))
    /\ GoTo([pc |-> "sync", tpos |-> 1, cpos |-> 0])
    /\ UNCHANGED <<test_db, prod_db, test_snap, diff, syncVars>>

(***************************************************************************)
(* Data sync (runner.py: _sync_data, _select_sync_column) on the target    *)
(* inspector of the run and a fresh reference inspector.                   *)
(***************************************************************************)
\* what the operator may type at the sync-key prompt
KeyChoices == {<<"1">>, <<"2">>, <<" ", "P">>, <<"0">>, <<Sup2>>, EOF}

\* what the operator may type at the NOT NULL prompt, and as the value
NotNullChoices == {<<"d">>, <<" ", "V">>, <<"x">>, EOF}
Payloads == {"1"}

\* mutant: after the last table the first table is taken up once more
M_NextTable_revisits ==
    /\ IF tpos + 1 <= Len(test_snap)
       THEN pc' = "sync" /\ tpos' = tpos + 1
       ELSE IF /\ tpos > 1
               /\ Cardinality({k \in DOMAIN log :
                                  /\ log[k].op = "fetch_rows"
                                  /\ log[k].table = test_snap[1].name}) = 1
       THEN pc' = "sync" /\ tpos' = 1
       ELSE pc' = "done" /\ tpos' = tpos
    /\ cpos' = cpos
    /\ sync' = NoSync
    /\ call' = NoCall
    /\ reprompts' = 0

\* the for loop of line 236 moves to the next table, or _sync_data returns
\* and run_sync ends
NextTable ==
    /\ IF tpos + 1 <= Len(test_snap)
       THEN pc' = "sync" /\ tpos' = tpos + 1
       ELSE pc' = "done" /\ tpos' = tpos
    /\ cpos' = cpos
    /\ sync' = NoSync
    /\ call' = NoCall
    /\ reprompts' = 0

\* lines 164-169: the is_column_unique calls, the target asked only when the
\* reference answered true
RECURSIVE UniqueCalls(_, _, _, _)
UniqueCalls(tdb, table_name, common_cols, k) ==
    IF k > Len(common_cols) THEN <<>>
    ELSE <<Event("is_column_unique", "test", table_name, <<common_cols[k]>>, <<>>)>>
         \o (IF is_column_unique(tdb, table_name, common_cols[k])
             THEN <<Event("is_column_unique", "prod", table_name,
                          <<common_cols[k]>>, <<>>)>>
             ELSE <<>>)
         \o UniqueCalls(tdb, table_name, common_cols, k + 1)

\* line 191: the option p is printed
OffersPrimaryKey(potential_keys, primary_key) ==
    primary_key # <<>> /\ primary_key[1] \notin Range(potential_keys)

\* lines 186-192: the menu printed before the prompt: the candidates, the
\* one marked (PRIMARY KEY) if any, and the option p if it is printed
KeyMenu(table_name, potential_keys, primary_key) ==
    DataEvent("print_keys", "", table_name, potential_keys,
              SelectSeq(potential_keys, LAMBDA col : <<col>> = primary_key),
              IF OffersPrimaryKey(potential_keys, primary_key)
              THEN <<"p">> ELSE <<>>)

\* lines 236-254 with _select_sync_column up to its prompt (lines 153-192)
SyncBegin ==
    /\ pc = "sync"
    /\ tpos <= Len(test_snap)
    /\ LET test_table == test_snap[tpos]
           table_name == test_table.name
       IN  IF ~HasTable(prod_snap, table_name)
           THEN NextTable /\ UNCHANGED <<log>>
           ELSE
           LET prod_table == TableOf(prod_snap, table_name)
               common_cols == CommonCols(test_table, prod_table)
               potential_keys ==
                   PotentialKeys(test_db, prod_db, table_name, common_cols)
           IN  IF common_cols = <<>>
               THEN NextTable /\ UNCHANGED <<log>>
               ELSE
               /\ log' = log \o UniqueCalls(test_db, table_name, common_cols, 1)
                            \o (IF potential_keys # <<>>
                                THEN <<KeyMenu(table_name, potential_keys,
                                               prod_table.primary_key)>>
                                ELSE <<>>)
               /\ IF potential_keys # <<>>
                  THEN /\ pc' = "key_prompt"
                       /\ sync' = [NoSync EXCEPT !.table = table_name,
                                        !.potential_keys = potential_keys]
                       /\ UNCHANGED <<tpos, cpos, call, reprompts>>
                  ELSE IF prod_table.primary_key # <<>>
                  THEN /\ pc' = "classify"
                       /\ sync' = [NoSync EXCEPT !.table = table_name,
                                        !.sync_key = prod_table.primary_key]
                       /\ UNCHANGED <<tpos, cpos, call, reprompts>>
                  ELSE NextTable
    /\ UNCHANGED <<test_db, prod_db, test_snap, prod_snap, diff, memo, counters,
                   conns>>

\* _sync_data is entered with an empty reference snapshot
SyncNothing ==
    /\ pc = "sync"
    /\ tpos > Len(test_snap)
    /\ pc' = "done"
    /\ UNCHANGED <<tpos, cpos, test_db, prod_db, test_snap, prod_snap, diff,
                   log, syncVars>>

\* lines 194-212: one line read at the sync-key prompt
ChooseSyncKey ==
    /\ pc = "key_prompt"
    /\ \E line \in KeyChoices :
        LET prod_table == TableOf(prod_snap, sync.table)
            choice == lower(strip(line))
            key == SelectedKey(choice, sync.potential_keys,
                               prod_table.primary_key)
        IN  /\ log' = Append(log, Event("prompt_key", "", sync.table,
                                        sync.potential_keys, line))
            /\ IF line = EOF \/ KeyRaises(choice, prod_table.primary_key)
               THEN pc' = "failed" /\ UNCHANGED <<sync, reprompts>>
               ELSE IF key # <<>>
               THEN /\ pc' = "classify"
                    /\ sync' = [sync EXCEPT !.sync_key = key]
                    /\ reprompts' = 0
               ELSE /\ reprompts < MaxReprompts
                    /\ reprompts' = reprompts + 1
                    /\ UNCHANGED <<pc, sync>>
    /\ UNCHANGED <<tpos, cpos, test_db, prod_db, test_snap, prod_snap, diff,
                   call, memo, counters, conns>>

\* lines 262-305: the shared columns, the three fetches and the
\* classification of the reference rows
ClassifyRows ==
    /\ pc = "classify"
    /\ LET test_table == test_snap[tpos]
           prod_table == TableOf(prod_snap, sync.table)
           shared_columns == SharedColumns(test_table, prod_table)
           prod_sync_values ==
               fetch_primary_key_values(prod_db, sync.table, sync.sync_key)
           prod_real_pk == prod_table.primary_key
           prod_real_pk_values ==
               fetch_primary_key_values(prod_db, sync.table, prod_real_pk)
           rows == fetch_rows(test_db, sync.table, shared_columns)
           classes == Classify(rows, sync.sync_key, prod_sync_values,
                               prod_real_pk, prod_real_pk_values)
       IN  IF shared_columns = <<>>
           THEN NextTable /\ UNCHANGED <<log>>
           ELSE
           /\ log' = log
                \o <<DataEvent("fetch_primary_key_values", "prod", sync.table,
                               <<>>, sync.sync_key, <<>>)>>
                \o (IF prod_real_pk # <<>>
                    THEN <<DataEvent("fetch_primary_key_values", "prod",
                                     sync.table, <<>>, prod_real_pk, <<>>)>>
                    ELSE <<>>)
                \o <<DataEvent("fetch_rows", "test", sync.table,
                               shared_columns, <<>>, <<>>)>>
           /\ IF ClassifyRaises(rows, shared_columns, sync.sync_key,
                                prod_sync_values, prod_real_pk)
              THEN /\ pc' = "failed"
                   /\ UNCHANGED <<tpos, cpos, sync, call, reprompts>>
              ELSE LET s2 == [sync EXCEPT
                                !.shared_columns = shared_columns,
                                !.missing_rows = classes.missing_rows,
                                !.existing_rows = classes.existing_rows,
                                !.skipped_rows = classes.skipped_rows]
                   IN  IF classes.missing_rows # <<>>
                       THEN /\ pc' = "insert"
                            /\ sync' = s2
                            /\ call' = [NoCall EXCEPT
                                          !.rows = classes.missing_rows]
                            /\ UNCHANGED <<tpos, cpos, reprompts>>
                       ELSE IF classes.existing_rows # <<>>
                       THEN /\ pc' = "update"
                            /\ sync' = s2
                            /\ UNCHANGED <<tpos, cpos, call, reprompts>>
                       ELSE NextTable
    /\ UNCHANGED <<test_db, prod_db, test_snap, prod_snap, diff, memo, counters,
                   conns>>

\* the statement after the insert_rows call of lines 311-314
AfterInsert ==
    IF sync.existing_rows # <<>>
    THEN pc' = "update" /\ call' = NoCall /\ UNCHANGED <<tpos, cpos, sync, reprompts>>
    ELSE NextTable

\* the log entries of an attempt of insert_rows that raises: the call, and
\* the exception with the column it names
Raised(error, column) ==
    <<DataEvent("insert_rows", "prod", sync.table, sync.shared_columns,
                <<>>, call.rows),
      Event("raise", "prod", sync.table, <<column>>, <<error>>)>>

\* mutant: a NOT NULL violation enters the NULL-conflict protocol whether or
\* not it names a column
M_InsertRows_unnamedColumn ==
    /\ pc = "insert"
    /\ LET r == InsertMany(prod_db[sync.table], sync.shared_columns,
                           call.rows, 1)
       IN  IF r.error = ""
           THEN /\ log' = Append(log, DataEvent("insert_rows", "prod", sync.table,
                                                sync.shared_columns, <<>>,
                                                call.rows))
                /\ prod_db' = [prod_db EXCEPT ![sync.table] = r.table]
                /\ counters' = [counters EXCEPT !.inserted = @ + Len(call.rows)]
                /\ AfterInsert
           ELSE /\ \E atomic \in BOOLEAN :
                     prod_db' = IF atomic THEN prod_db
                                ELSE [prod_db EXCEPT ![sync.table] = r.table]
                /\ counters' = counters
                /\ \E column \in {r.column, ""} :
                     IF r.error = "NotNullViolation" /\ call.depth < MaxDepth
                     THEN /\ pc' = "not_null"
                          /\ log' = Append(log, Raised(r.error, column)[1])
                          /\ call' = [call EXCEPT !.table = sync.table,
                                                  !.column = column]
                          /\ UNCHANGED <<tpos, cpos, sync, reprompts>>
                     ELSE /\ pc' = "failed"
                          /\ log' = log \o Raised(r.error, column)
                          /\ UNCHANGED <<tpos, cpos, sync, call, reprompts>>
    /\ UNCHANGED <<test_db, test_snap, prod_snap, diff, memo, conns>>

\* database.py lines 362-395, 415-419: one call of insert_rows up to the
\* return, the raise or the NULL-conflict protocol.  Whether the rows before
\* the failing one stay inserted depends on how the driver runs executemany
\* on an autocommit connection, and whether a NOT NULL violation names its
\* column (exc.diag.column_name) depends on what the server reports.
InsertRows ==
    /\ pc = "insert"
    /\ LET r == InsertMany(prod_db[sync.table], sync.shared_columns,
                           call.rows, 1)
       IN  IF r.error = ""
           THEN /\ log' = Append(log, DataEvent("insert_rows", "prod", sync.table,
                                                sync.shared_columns, <<>>,
                                                call.rows))
                /\ prod_db' = [prod_db EXCEPT ![sync.table] = r.table]
                /\ counters' = [counters EXCEPT !.inserted = @ + Len(call.rows)]
                /\ AfterInsert
           ELSE /\ \E atomic \in BOOLEAN :
                     prod_db' = IF atomic THEN prod_db
                                ELSE [prod_db EXCEPT ![sync.table] = r.table]
                /\ counters' = counters
                /\ \E column \in {r.column, ""} :
                     IF /\ r.error = "NotNullViolation"
                        /\ column # ""
                        /\ call.depth < MaxDepth
                     THEN /\ pc' = "not_null"
                          /\ log' = Append(log, Raised(r.error, column)[1])
                          /\ call' = [call EXCEPT !.table = sync.table,
                                                  !.column = column]
                          /\ UNCHANGED <<tpos, cpos, sync, reprompts>>
                     ELSE /\ pc' = "failed"
                          /\ log' = log \o Raised(r.error, column)
                          /\ UNCHANGED <<tpos, cpos, sync, call, reprompts>>
    /\ UNCHANGED <<test_db, test_snap, prod_snap, diff, memo, conns>>

\* the retry of lines 405 and 414 after a decision
Decided(decision) ==
    IF decision.action = "drop"
    THEN pc' = "drop_not_null" /\ UNCHANGED <<call>>
    ELSE /\ pc' = "insert"
         /\ call' = [call EXCEPT
                !.rows = _replace_null_with_default(call.column, call.rows,
                                                    decision.payload),
                !.depth = @ + 1]

\* mutant: a violation on a pair that has a stored decision asks again
M_ReuseDecision_asksAgain ==
    /\ pc = "not_null"
    /\ <<call.table, call.column>> \in DOMAIN memo
    /\ log' = Append(log, Event("prompt_not_null", "prod", call.table,
                                <<call.column>>, <<"d">>))
    /\ Decided(memo[<<call.table, call.column>>])
    /\ UNCHANGED <<tpos, cpos, test_db, prod_db, test_snap, prod_snap, diff,
                   sync, memo, reprompts, counters, conns>>

\* database.py lines 396, 523-525: the decision is in the memo
ReuseDecision ==
    /\ pc = "not_null"
    /\ <<call.table, call.column>> \in DOMAIN memo
    /\ Decided(memo[<<call.table, call.column>>])
    /\ UNCHANGED <<tpos, cpos, test_db, prod_db, test_snap, prod_snap, diff,
                   log, sync, memo, reprompts, counters, conns>>

\* database.py lines 527-544: the operator is asked for the action, and for
\* the value when the action is v
AskDecision ==
    /\ pc = "not_null"
    /\ <<call.table, call.column>> \notin DOMAIN memo
    /\ \E line \in NotNullChoices :
        LET choice == lower(strip(line))
            asked == Event("prompt_not_null", "prod", call.table,
                           <<call.column>>, line)
            remember(decision) ==
                /\ memo' = [k \in DOMAIN memo \cup {<<call.table, call.column>>} |->
                              IF k = <<call.table, call.column>>
                              THEN decision ELSE memo[k]]
                /\ Decided(decision)
                /\ reprompts' = 0
        IN  IF line = EOF
            THEN /\ pc' = "failed"
                 /\ log' = Append(log, asked)
                 /\ UNCHANGED <<call, memo, reprompts>>
            ELSE IF choice = <<"d">>
            THEN /\ log' = Append(log, asked)
                 /\ remember([action |-> "drop", payload |-> None])
            ELSE IF choice = <<"v">>
            THEN \E value \in Payloads \cup {None} :
                    /\ log' = log \o <<asked,
                            Event("prompt_default", "prod", call.table,
                                  <<call.column>>,
                                  IF value = None THEN EOF ELSE <<value>>)>>
                    /\ IF value = None
                       THEN pc' = "failed" /\ UNCHANGED <<call, memo, reprompts>>
                       ELSE remember([action |-> "default", payload |-> value])
            ELSE /\ reprompts < MaxReprompts
                 /\ reprompts' = reprompts + 1
                 /\ log' = Append(log, asked)
                 /\ UNCHANGED <<pc, call, memo>>
    /\ UNCHANGED <<tpos, cpos, test_db, prod_db, test_snap, prod_snap, diff,
                   sync, counters, conns>>

\* database.py lines 397-405: _drop_not_null_constraint, then the retry
DropNotNull ==
    /\ pc = "drop_not_null"
    /\ log' = Append(log, Event("drop_not_null", "prod", call.table,
                                <<call.column>>, <<>>))
    /\ IF DropNotNullAllowed(prod_db, call.table, call.column)
       THEN /\ prod_db' = _drop_not_null_constraint(prod_db, call.table,
                                                    call.column)
            /\ pc' = "insert"
            /\ call' = [call EXCEPT !.depth = @ + 1]
       ELSE /\ pc' = "failed"
            /\ UNCHANGED <<prod_db, call>>
    /\ UNCHANGED <<tpos, cpos, test_db, test_snap, prod_snap, diff, sync,
                   memo, reprompts, counters, conns>>

\* database.py lines 455-485: the UPDATE statement update_rows executes, with
\* its SET list and the columns of its WHERE clause
UpdateStatement(table_name, update_cols, sync_key, rows) ==
    DataEvent("UPDATE", "prod", table_name, update_cols, sync_key, rows)

\* database.py lines 421-490: update_rows, called at lines 322-325
UpdateRows ==
    /\ pc = "update"
    /\ LET update_cols == UpdateCols(sync.shared_columns, sync.sync_key)
           r == UpdateMany(prod_db[sync.table], sync.sync_key, update_cols,
                           sync.existing_rows, 1)
           called == DataEvent("update_rows", "prod", sync.table,
                               sync.shared_columns, sync.sync_key,
                               sync.existing_rows)
           executed == UpdateStatement(sync.table, update_cols, sync.sync_key,
                                       sync.existing_rows)
       IN  IF \/ sync.shared_columns = <<>>
              \/ sync.existing_rows = <<>>
              \/ sync.sync_key = <<>>
              \/ update_cols = <<>>
           THEN /\ log' = Append(log, called)
                /\ NextTable
                /\ UNCHANGED <<prod_db, counters>>
           ELSE /\ log' = log \o <<called, executed>>
                /\ IF r.error = ""
                   THEN /\ prod_db' = [prod_db EXCEPT ![sync.table] = r.table]
                        /\ counters' = [counters EXCEPT
                                          !.updated = @ + Len(sync.existing_rows)]
                        /\ NextTable
                   ELSE /\ \E atomic \in BOOLEAN :
                             prod_db' = IF atomic THEN prod_db
                                        ELSE [prod_db EXCEPT ![sync.table] = r.table]
                        /\ pc' = "failed"
                        /\ UNCHANGED <<tpos, cpos, sync, call, reprompts, counters>>
    /\ UNCHANGED <<test_db, test_snap, prod_snap, diff, memo, conns>>

\* mutant: run_sync catches the error and goes on with the same operation
M_DbError_retried ==
    /\ pc \in {"start", "create", "add", "orphan_drop", "drop_table",
               "refetch", "classify", "insert", "drop_not_null", "update"}
    /\ Len(log) < 6
    /\ pc' = pc
    /\ log' = Append(log, Event("error", "", "", <<>>, <<pc>>))
    /\ UNCHANGED <<tpos, cpos, test_db, prod_db, test_snap, prod_snap, diff,
                   syncVars>>

\* database.py lines 610-624 and the connections of the other calls: a
\* statement or a connection fails, and the exception leaves run_sync.  The
\* event names the operation that failed.
DbError ==
    /\ pc \in {"start", "create", "add", "orphan_drop", "drop_table",
               "refetch", "classify", "insert", "drop_not_null", "update"}
    /\ pc' = "failed"
    /\ log' = Append(log, Event("error", "", "", <<>>, <<pc>>))
    /\ UNCHANGED <<tpos, cpos, test_db, prod_db, test_snap, prod_snap, diff,
                   syncVars>>

(***************************************************************************)
(* The databases a run starts from.                                        *)
(***************************************************************************)
\* the values of the columns
Vals == {"1", "2"}

ColumnType(name) == IF name = "id" THEN "integer" ELSE "text"

\* a table with the columns cs, the primary key pk and NOT NULL on the
\* columns of notnull and of the primary key
MakeTable(cs, pk, notnull, rows) ==
    DbTable([k \in DOMAIN cs |->
                ColumnSchema(cs[k], ColumnType(cs[k]),
                             cs[k] \notin notnull \cup Range(pk), None)],
            pk, rows)

\* the values a column can hold at the start: any value or NULL as far as
\* the constraints allow, and in column w the same in every row
StartVals(c, pk, notnull) ==
    IF c \in notnull \cup Range(pk)
    THEN (IF c = "w" THEN {"1"} ELSE Vals)
    ELSE (IF c = "w" THEN {None} ELSE Vals \cup {None})

\* the contents a table with these constraints can have, of m rows
RowSeqs(cs, pk, notnull, m) ==
    LET rowVals == {r \in [Range(cs) -> Vals \cup {None}] :
                        \A c \in Range(cs) : r[c] \in StartVals(c, pk, notnull)}
    IN  {rs \in [1..m -> rowVals] :
            pk # <<>> =>
                \A x, y \in 1..m :
                    x # y => Project(rs[x], pk) # Project(rs[y], pk)}

\* the contents of up to n rows
RowSeqsUpTo(cs, pk, notnull, n) ==
    UNION {RowSeqs(cs, pk, notnull, m) : m \in 0..n}

\* schema-rich databases: any tables over the column names, nullable text
\* columns, no primary keys, no rows
PlainTables == {MakeTable(cs, <<>>, {}, <<>>) : cs \in ColumnNameLists}

PlainDbs == UNION {[S -> PlainTables] : S \in SUBSET TableNames}

\* data-rich databases: the single table "a", the reference with the
\* columns id and v
RefTables ==
    UNION {{MakeTable(<<"id", "v">>, pk, {}, rows) :
                rows \in RowSeqsUpTo(<<"id", "v">>, pk, {}, MaxRows)} :
           pk \in {<<>>, <<"id">>}}

ProdShapes ==
    {sh \in [cs : {<<"id", "v">>, <<"id", "v", "w">>, <<"id">>},
             pk : {<<>>, <<"id">>, <<"id", "v">>, <<"id", "w">>},
             notnull : {{}, {"v"}, {"w"}}] :
        /\ Range(sh.pk) \subseteq Range(sh.cs)
        /\ sh.notnull \subseteq Range(sh.cs) \ Range(sh.pk)}

ProdTables ==
    UNION {{MakeTable(sh.cs, sh.pk, sh.notnull, rows) :
                rows \in RowSeqsUpTo(sh.cs, sh.pk, sh.notnull, MaxRows)} :
           sh \in ProdShapes}

\* databases whose reference table holds one row more, without NULL in id
MoreRefTables ==
    {MakeTable(<<"id", "v">>, <<>>, {}, rows) :
        rows \in {rs \in RowSeqs(<<"id", "v">>, <<>>, {}, MaxRows + 1) :
                    \A k \in DOMAIN rs : rs[k]["id"] # None}}

FewProdTables ==
    UNION {{MakeTable(<<"id", "v">>, pk, nn, rows) :
                rows \in RowSeqsUpTo(<<"id", "v">>, pk, nn, MaxRows)} :
           pk \in {<<>>, <<"id">>}, nn \in {{}, {"v"}}}

\* two tables with data: "a" and "b", each keyed by id
PairTable(rows) == MakeTable(<<"id", "v">>, <<"id">>, {}, rows)

PairRow(id, v) == [c \in {"id", "v"} |-> IF c = "id" THEN id ELSE v]

PairDbs(contents) == [TableNames -> {PairTable(rows) : rows \in contents}]

\* a target that lacks the reference's table "a", and whose table "b" lacks
\* the column v and has the column w
NewTables ==
    {MakeTable(<<"id", "v">>, pk, {}, rows) :
        pk \in {<<>>, <<"id">>}, rows \in {<<>>, <<PairRow("1", "1")>>}}

OtherRow(id) == [c \in {"id", "w"} |-> IF c = "id" THEN id ELSE None]

PartialDbs ==
    {EmptyDb} \cup
    {[n \in {"b"} |-> MakeTable(<<"id", "w">>, <<"id">>, {}, rows)] :
        rows \in {<<>>, <<OtherRow("1")>>, <<OtherRow("2")>>}}

\* a table whose column id holds a NULL next to a value, on both sides
NullKeyTable(v1, v2) ==
    MakeTable(<<"id", "v">>, <<>>, {}, <<PairRow("1", v1), PairRow(None, v2)>>)

\* a reference whose table "b" references table "a", and a target without
\* foreign keys that has both tables or only "a"
ReferenceFk == ForeignKeySchema("b_id_fkey", <<"id">>, "a", <<"id">>)

ForeignKeyDb ==
    [n \in TableNames |->
        IF n = "a" THEN PairTable(<<PairRow("1", "1")>>)
        ELSE WithForeignKeys(PairTable(<<PairRow("1", "1")>>), <<ReferenceFk>>)]

NoForeignKeyDbs ==
    {[n \in names |-> PairTable(<<>>)] : names \in {{"a"}, TableNames}}

InitDbs ==
    \/ /\ test_db = ForeignKeyDb
       /\ prod_db \in NoForeignKeyDbs
    \/ /\ test_db \in PlainDbs
       /\ prod_db \in PlainDbs
    \/ /\ test_db \in {[n \in {"a"} |-> t] : t \in RefTables}
       /\ prod_db \in {[n \in {"a"} |-> t] : t \in ProdTables}
    \/ /\ test_db \in {[n \in {"a"} |-> t] : t \in MoreRefTables}
       /\ prod_db \in {[n \in {"a"} |-> t] : t \in FewProdTables}
    \/ /\ test_db \in PairDbs({<<>>, <<PairRow("1", "1")>>})
       /\ prod_db \in PairDbs({<<>>, <<PairRow("1", "2")>>,
                               <<PairRow("2", "2")>>,
                               <<PairRow("1", "2"), PairRow("2", "2")>>})
    \/ /\ test_db \in {[n \in TableNames |->
                          IF n = "a" THEN t ELSE PairTable(<<PairRow("1", "1")>>)] :
                      t \in NewTables}
       /\ prod_db \in PartialDbs
    \/ /\ test_db = [n \in {"a"} |-> NullKeyTable("1", "2")]
       /\ prod_db \in {[n \in {"a"} |-> NullKeyTable("2", v2)] :
                          v2 \in {"1", None}}
    \* a reference column that is NOT NULL, with or without a default, and
    \* that the target table, empty or not, lacks
    \/ /\ test_db \in
             {[n \in {"a"} |->
                 DbTable(<<ColumnSchema("id", "integer", TRUE, None),
                           ColumnSchema("v", "integer", FALSE, default)>>,
                         <<>>, <<PairRow("1", "1")>>)] :
              default \in {None, "1"}}
       /\ prod_db \in {[n \in {"a"} |-> MakeTable(<<"id">>, <<>>, {}, rows)] :
                          rows \in RowSeqsUpTo(<<"id">>, <<>>, {}, MaxRows)}

Init ==
    /\ pc = "start"
    /\ tpos = 0
    /\ cpos = 0
    /\ InitDbs
    /\ test_snap = <<>>
    /\ prod_snap = <<>>
    /\ diff = EmptyDiff
    /\ log = <<>>
    /\ sync = NoSync
    /\ call = NoCall
    /\ memo = NoMemo
    /\ reprompts = 0
    /\ counters = NoCounters
    /\ conns = {}

Next ==
    \/ FetchAndDiff
    \/ CreateTable
    \/ AddColumn
    \/ PromptOrphanColumns
    \/ DropColumn
    \/ PromptMissingTable
    \/ DropTable
    \/ Refetch
    \/ SyncBegin
    \/ SyncNothing
    \/ ChooseSyncKey
    \/ ClassifyRows
    \/ InsertRows
    \/ ReuseDecision
    \/ AskDecision
    \/ DropNotNull
    \/ UpdateRows
    \/ DbError

Spec == Init /\ [][Next]_vars

(***************************************************************************)
(* run_sync run again after it completed (runner.py lines 332-409), with   *)
(* no change to either database in between.                                *)
(***************************************************************************)
\* the runs started so far
Runs == 1 + Cardinality({k \in DOMAIN log : log[k].op = "run_sync"})

\* the rows the target holds, table by table, as entries of the log
TargetState ==
    LET tables == SelectSeq(TableOrder, LAMBDA t : t \in DOMAIN prod_db)
    IN  [k \in DOMAIN tables |->
            DataEvent("state", "prod", tables[k],
                      NamesOfColumns(prod_db[tables[k]].columns), <<>>,
                      prod_db[tables[k]].rows)]

\* a completed run is followed by another: new Inspectors, new snapshots
RunAgain ==
    /\ pc = "done"
    /\ Runs < MaxRuns
    /\ pc' = "start"
    /\ tpos' = 0
    /\ cpos' = 0
    /\ test_snap' = <<>>
    /\ prod_snap' = <<>>
    /\ diff' = EmptyDiff
    /\ log' = log \o TargetState \o <<Event("run_sync", "", "", <<>>, <<>>)>>
    /\ sync' = NoSync
    /\ call' = NoCall
    /\ memo' = NoMemo
    /\ reprompts' = 0
    /\ counters' = NoCounters
    /\ UNCHANGED <<test_db, prod_db, conns>>

\* the databases of the runs: with rows to insert and update, and with
\* tables and columns to create, add and drop
InitTwice ==
    /\ Init
    /\ \/ /\ test_db \in {[n \in {"a"} |-> t] : t \in MoreRefTables}
          /\ prod_db \in {[n \in {"a"} |-> t] : t \in FewProdTables}
       \/ /\ test_db \in {[n \in TableNames |->
                             IF n = "a" THEN t ELSE PairTable(<<PairRow("1", "1")>>)] :
                         t \in NewTables}
          /\ prod_db \in PartialDbs
       \/ /\ test_db = EmptyDb
          /\ prod_db = [n \in {"a"} |-> MakeTable(<<"id">>, <<>>, {}, <<>>)]
       \/ /\ test_db = [n \in {"a"} |-> PairTable(<<PairRow("1", "1")>>)]
          /\ prod_db = [n \in {"a"} |->
                          MakeTable(<<"id", "v", "w">>, <<"id">>, {"w"}, <<>>)]

NextTwice == Next \/ RunAgain

SpecTwice == InitTwice /\ [][NextTwice]_vars

(***************************************************************************)
(* insert_rows called directly on one Inspector (database.py lines         *)
(* 344-419), batch after batch: any column list of the target table, any   *)
(* rows over it.                                                           *)
(***************************************************************************)
\* the target table of the calls
InsertTargets ==
    UNION {{MakeTable(<<"id", "v">>, pk, nn, rows) :
                rows \in {rs \in RowSeqsUpTo(<<"id", "v">>, pk, nn, MaxRows) :
                            \A k \in DOMAIN rs : rs[k]["v"] # "2"}} :
           pk \in {<<>>, <<"id">>}, nn \in SUBSET {"id", "v"}}

\* the column lists of the calls
InsertColumns == {<<"id", "v">>, <<"id">>, <<"v">>}

\* the batches of up to n rows over a column list
Batches(columns, n) ==
    UNION {[1..m -> [Range(columns) -> Vals \cup {None}]] : m \in 1..n}

\* the locals of the caller while insert_rows runs
Calling(columns, rows) ==
    [NoSync EXCEPT !.table = "a", !.shared_columns = columns,
                   !.missing_rows = rows]

InitInsert ==
    /\ pc = "insert"
    /\ tpos = 1
    /\ cpos = 0
    /\ test_db = EmptyDb
    /\ prod_db \in {[n \in {"a"} |-> t] : t \in InsertTargets}
    /\ test_snap = <<>>
    /\ prod_snap = fetch_schema(prod_db)
    /\ diff = EmptyDiff
    /\ log = <<>>
    /\ \E columns \in InsertColumns : \E rows \in Batches(columns, MaxBatchRows) :
          /\ sync = Calling(columns, rows)
          /\ call = [NoCall EXCEPT !.rows = rows]
    /\ memo = NoMemo
    /\ reprompts = 0
    /\ counters = NoCounters
    /\ conns = {}

\* insert_rows has returned and is called again on the same Inspector, with
\* a batch of one row
NextBatch ==
    /\ pc = "done"
    /\ tpos < MaxBatches
    /\ tpos' = tpos + 1
    /\ pc' = "insert"
    /\ \E columns \in InsertColumns : \E rows \in Batches(columns, 1) :
          /\ sync' = Calling(columns, rows)
          /\ call' = [NoCall EXCEPT !.rows = rows]
    /\ reprompts' = 0
    /\ UNCHANGED <<cpos, test_db, prod_db, test_snap, prod_snap, diff, log,
                   memo, counters, conns>>

NextInsert ==
    \/ InsertRows
    \/ ReuseDecision
    \/ AskDecision
    \/ DropNotNull
    \/ DbError
    \/ NextBatch

SpecInsert == InitInsert /\ [][NextInsert]_vars

(***************************************************************************)
(* update_rows called directly (database.py lines 421-490): any column     *)
(* list, any sync key, any batch of rows, the empty ones included.         *)
(***************************************************************************)
\* the target table of the call: up to MaxRows + 1 rows without NULL in id
UpdateTargets ==
    UNION {{MakeTable(<<"id", "v", "w">>, pk, nn, rows) :
                rows \in {rs \in RowSeqsUpTo(<<"id", "v", "w">>, pk, nn,
                                             MaxRows + 1) :
                            \A k \in DOMAIN rs : rs[k]["id"] # None}} :
           pk \in {<<>>, <<"id">>}, nn \in {{}, {"w"}}}

\* the rows argument: up to MaxBatchRows rows
UpdateBatches ==
    LET values == {r \in [{"id", "v", "w"} -> Vals \cup {None}] :
                      /\ r["id"] = "1"
                      /\ r["v"] \in {"1", None}
                      /\ r["w"] \in {"2", None}}
    IN  UNION {[1..m -> values] : m \in 0..MaxBatchRows}

InitUpdate ==
    /\ pc = "update"
    /\ tpos = 1
    /\ cpos = 0
    /\ test_db = EmptyDb
    /\ prod_db \in {[n \in {"a"} |-> t] : t \in UpdateTargets}
    /\ test_snap = <<>>
    /\ prod_snap = fetch_schema(prod_db)
    /\ diff = EmptyDiff
    /\ log = <<>>
    /\ \E columns \in {<<>>, <<"id">>, <<"id", "v">>, <<"id", "v", "w">>} :
       \E key \in {<<>>, <<"id">>, <<"v">>, <<"id", "v">>} :
       \E rows \in UpdateBatches :
          sync = [NoSync EXCEPT !.table = "a", !.shared_columns = columns,
                                !.sync_key = key, !.existing_rows = rows]
    /\ call = NoCall
    /\ memo = NoMemo
    /\ reprompts = 0
    /\ counters = NoCounters
    /\ conns = {}

NextUpdate == UpdateRows \/ DbError

SpecUpdate == InitUpdate /\ [][NextUpdate]_vars

(***************************************************************************)
(* _column_definition called directly (database.py lines 574-608) with any *)
(* column: the column is the one column of table a of the reference        *)
(* snapshot.                                                               *)
(***************************************************************************)
InitRender ==
    /\ pc = "render"
    /\ tpos = 1
    /\ cpos = 1
    /\ test_db = EmptyDb
    /\ prod_db = EmptyDb
    /\ \E name \in ColNames :
       \E column_type \in {"integer", "INTEGER", "bigint", "text"} :
       \E is_nullable \in BOOLEAN :
       \E default \in {None, "nextval('s'::regclass)", "NEXTVAL('s')", "0"} :
          test_snap = <<TableSchema("a",
                                    <<ColumnSchema(name, column_type,
                                                   is_nullable, default)>>,
                                    <<>>)>>
    /\ prod_snap = <<>>
    /\ diff = EmptyDiff
    /\ log = <<>>
    /\ sync = NoSync
    /\ call = NoCall
    /\ memo = NoMemo
    /\ reprompts = 0
    /\ counters = NoCounters
    /\ conns = {}

\* self._column_definition(col)
RenderColumn ==
    /\ pc = "render"
    /\ LET column == test_snap[tpos].columns[cpos]
       IN  log' = Append(log, Event("_column_definition", "prod",
                                    test_snap[tpos].name, <<column.name>>,
                                    _column_definition(column)))
    /\ pc' = "done"
    /\ UNCHANGED <<tpos, cpos, test_db, prod_db, test_snap, prod_snap, diff,
                   syncVars>>

NextRender == RenderColumn

SpecRender == InitRender /\ [][NextRender]_vars

(***************************************************************************)
(* The connections of a run (database.py: every `with psycopg.connect`).   *)
(* An operation of an inspector takes two steps, the entry into its `with` *)
(* block and the exit from it; run_sync and _sync_data call the operations *)
(* one after the other (here: in any order), tpos counting them.           *)
(***************************************************************************)
\* the connection of the operation that is inside its `with` block
CurrentConnection ==
    [insp |-> log[Len(log)].insp, op |-> log[Len(log)].op,
     depth |-> call.depth]

\* mutant: the connection outlives the block
M_Leave_keepsOpen == conns' = conns

\* the exit from `with psycopg.connect(...) as conn`, by return or by raise
Leave == conns' = conns \ {CurrentConnection}

InitConn ==
    /\ pc = "runner"
    /\ tpos = 0
    /\ cpos = 0
    /\ test_db = EmptyDb
    /\ prod_db = EmptyDb
    /\ test_snap = <<>>
    /\ prod_snap = <<>>
    /\ diff = EmptyDiff
    /\ log = <<>>
    /\ sync = NoSync
    /\ call = NoCall
    /\ memo = NoMemo
    /\ reprompts = 0
    /\ counters = NoCounters
    /\ conns = {}

\* runner.py lines 353-407, 236-325: the run calls an operation of the
\* reference or of the target inspector, which enters its `with` block
CallOperation ==
    /\ pc = "runner"
    /\ tpos < MaxCalls
    /\ \E o \in {<<"fetch_schema", "test">>, <<"fetch_schema", "prod">>,
                 <<"create_table", "prod">>, <<"add_column", "prod">>,
                 <<"drop_column", "prod">>, <<"drop_table", "prod">>,
                 <<"is_column_unique", "test">>,
                 <<"is_column_unique", "prod">>,
                 <<"fetch_rows", "test">>,
                 <<"fetch_primary_key_values", "prod">>,
                 <<"insert_rows", "prod">>, <<"update_rows", "prod">>} :
          /\ log' = Append(log, Event(o[1], o[2], "a", <<>>, <<>>))
          /\ conns' = conns \cup {[insp |-> o[2], op |-> o[1], depth |-> 1]}
    /\ call' = [NoCall EXCEPT !.depth = 1, !.table = "a"]
    /\ tpos' = tpos + 1
    /\ pc' = "connected"
    /\ UNCHANGED <<cpos, test_db, prod_db, test_snap, prod_snap, diff, sync,
                   memo, reprompts, counters>>

\* the statements succeed and the block is left: _execute returns into the
\* NotNullViolation handler, every other operation into the run
ReturnOperation ==
    /\ pc = "connected"
    /\ Leave
    /\ IF log[Len(log)].op = "_execute"
       THEN pc' = "retry" /\ UNCHANGED call
       ELSE pc' = "runner" /\ call' = NoCall
    /\ UNCHANGED <<tpos, cpos, test_db, prod_db, test_snap, prod_snap, diff,
                   log, sync, memo, reprompts, counters>>

\* a statement or the connection fails and the block is left by the
\* exception: insert_rows handles a NotNullViolation that names its column
\* (database.py lines 384-390), everything else leaves the run
RaiseOperation ==
    /\ pc = "connected"
    /\ Leave
    /\ \E error \in {"NotNullViolation", "Error"} :
          /\ log' = Append(log, Event("raise", log[Len(log)].insp, "a", <<>>,
                                      <<error>>))
          /\ IF /\ log[Len(log)].op = "insert_rows"
                /\ error = "NotNullViolation"
                /\ call.depth < MaxDepth
             THEN pc' = "handler" /\ call' = [call EXCEPT !.column = "v"]
             ELSE pc' = "failed" /\ UNCHANGED call
    /\ UNCHANGED <<tpos, cpos, test_db, prod_db, test_snap, prod_snap, diff,
                   sync, memo, reprompts, counters>>

\* runner.py lines 120-124, 196: the run asks the operator
PromptOperator ==
    /\ pc = "runner"
    /\ tpos < MaxCalls
    /\ \E op \in {"prompt_discard", "prompt_key"} : \E line \in {<<"y">>, EOF} :
          /\ log' = Append(log, Event(op, "", "a", <<>>, line))
          /\ pc' = IF line = EOF THEN "failed" ELSE "runner"
    /\ tpos' = tpos + 1
    /\ UNCHANGED <<cpos, test_db, prod_db, test_snap, prod_snap, diff, sync,
                   call, memo, reprompts, counters, conns>>

\* database.py lines 396-414, 523-544: in the handler the stored decision
\* is taken, or the operator is asked and the decision stored
ResolveDecision ==
    /\ pc = "handler"
    /\ LET key == <<call.table, call.column>>
           go(decision) ==
               pc' = IF decision.action = "drop" THEN "drop" ELSE "retry"
       IN  IF key \in DOMAIN memo
           THEN go(memo[key]) /\ UNCHANGED <<log, memo>>
           ELSE \E line \in {<<"d">>, <<"v">>, EOF} :
                   /\ log' = Append(log, Event("prompt_not_null", "prod",
                                               call.table, <<call.column>>,
                                               line))
                   /\ IF line = EOF
                      THEN pc' = "failed" /\ UNCHANGED memo
                      ELSE LET decision ==
                                   IF line = <<"d">>
                                   THEN [action |-> "drop", payload |-> None]
                                   ELSE [action |-> "default", payload |-> "1"]
                           IN  /\ memo' = [k \in DOMAIN memo \cup {key} |->
                                             IF k = key THEN decision
                                             ELSE memo[k]]
                               /\ go(decision)
    /\ UNCHANGED <<tpos, cpos, test_db, prod_db, test_snap, prod_snap, diff,
                   sync, call, reprompts, counters, conns>>

\* database.py line 402: _drop_not_null_constraint enters the block of
\* _execute
DropConstraint ==
    /\ pc = "drop"
    /\ log' = Append(log, Event("_execute", "prod", call.table,
                                <<call.column>>, <<>>))
    /\ conns' = conns \cup {[insp |-> "prod", op |-> "_execute",
                             depth |-> call.depth]}
    /\ pc' = "connected"
    /\ UNCHANGED <<tpos, cpos, test_db, prod_db, test_snap, prod_snap, diff,
                   sync, call, memo, reprompts, counters>>

\* database.py lines 405, 414: the handler calls insert_rows again
RetryInsert ==
    /\ pc = "retry"
    /\ log' = Append(log, Event("insert_rows", "prod", call.table, <<>>, <<>>))
    /\ conns' = conns \cup {[insp |-> "prod", op |-> "insert_rows",
                             depth |-> call.depth + 1]}
    /\ call' = [call EXCEPT !.depth = @ + 1]
    /\ pc' = "connected"
    /\ UNCHANGED <<tpos, cpos, test_db, prod_db, test_snap, prod_snap, diff,
                   sync, memo, reprompts, counters>>

NextConn ==
    \/ CallOperation
    \/ ReturnOperation
    \/ RaiseOperation
    \/ PromptOperator
    \/ ResolveDecision
    \/ DropConstraint
    \/ RetryInsert

SpecConn == InitConn /\ [][NextConn]_vars

(***************************************************************************)
(* Properties of the diff engine (checked under SpecDiff).                 *)
(***************************************************************************)
\* position of a name in name order
Rank(n) == CHOOSE i \in DOMAIN ColOrder : ColOrder[i] = n

\* position of an element in a sequence without repetitions
PosIn(s, x) == CHOOSE i \in DOMAIN s : s[i] = x

NoRepeat(s) == \A i, j \in DOMAIN s : i # j => s[i] # s[j]

CommonTableNames == TableNamesOf(test_snap) \cap TableNamesOf(prod_snap)

\* C1: new_tables holds exactly the reference tables whose name is not in the
\* target, missing_tables exactly the target tables whose name is not in the
\* reference, each once; orphan_columns and missing_columns have keys only
\* among the tables of both snapshots, so never a key of a new table.
C1_TablePartition ==
    pc = "diffed" =>
        /\ NoRepeat(diff.new_tables)
        /\ Range(diff.new_tables) =
              {t \in Range(test_snap) : t.name \notin TableNamesOf(prod_snap)}
        /\ NoRepeat(diff.missing_tables)
        /\ Range(diff.missing_tables) =
              {t \in Range(prod_snap) : t.name \notin TableNamesOf(test_snap)}
        /\ DictKeys(diff.orphan_columns) \subseteq CommonTableNames
        /\ DictKeys(diff.missing_columns) \subseteq CommonTableNames
        /\ \A i \in DOMAIN diff.new_tables :
              /\ ~DictHas(diff.orphan_columns, diff.new_tables[i].name)
              /\ ~DictHas(diff.missing_columns, diff.new_tables[i].name)

\* C1 witness: a diff with a new table and a missing table
C1_Witness ==
    /\ pc = "diffed"
    /\ Len(diff.new_tables) >= 1
    /\ Len(diff.missing_tables) >= 1

\* C2: for every table t of both snapshots orphan_columns[t] is the
\* name-sorted list of exactly the names in target(t) but not in
\* reference(t), missing_columns[t] is exactly the reference columns whose
\* name the target lacks, in reference column order, and an entry exists only
\* when its list is non-empty.
C2_ColumnLists ==
    pc = "diffed" =>
        /\ NoRepeat([i \in DOMAIN diff.orphan_columns |->
                        diff.orphan_columns[i].table])
        /\ NoRepeat([i \in DOMAIN diff.missing_columns |->
                        diff.missing_columns[i].table])
        /\ \A t \in CommonTableNames :
            LET rt == TableOf(test_snap, t)
                pt == TableOf(prod_snap, t)
                orphanSet == ColNamesOf(pt) \ ColNamesOf(rt)
                missingSet == ColNamesOf(rt) \ ColNamesOf(pt)
            IN  /\ DictHas(diff.orphan_columns, t) <=> orphanSet # {}
                /\ DictHas(diff.orphan_columns, t) =>
                     LET o == DictGet(diff.orphan_columns, t)
                     IN  /\ Range(o) = orphanSet
                         /\ \A i, j \in DOMAIN o :
                               i < j => Rank(o[i]) < Rank(o[j])
                /\ DictHas(diff.missing_columns, t) <=> missingSet # {}
                /\ DictHas(diff.missing_columns, t) =>
                     LET m == DictGet(diff.missing_columns, t)
                     IN  /\ Range(m) =
                               {c \in Range(rt.columns) : c.name \in missingSet}
                         /\ \A i, j \in DOMAIN m :
                               i < j =>
                                 PosIn(rt.columns, m[i]) < PosIn(rt.columns, m[j])

\* C2 witness: a diff with two orphan columns in one table and with two
\* missing columns whose reference order is not the name order
C2_Witness ==
    /\ pc = "diffed"
    /\ \E i \in DOMAIN diff.orphan_columns :
          Len(diff.orphan_columns[i].columns) >= 2
    /\ \E i \in DOMAIN diff.missing_columns :
          LET m == diff.missing_columns[i].columns
          IN  Len(m) >= 2 /\ Rank(m[1].name) > Rank(m[2].name)

\* C3: the diff of a snapshot with itself is empty in all four parts.
C3_SelfDiffEmpty ==
    (pc = "diffed" /\ test_snap = prod_snap) =>
        /\ diff.new_tables = <<>>
        /\ diff.missing_tables = <<>>
        /\ diff.orphan_columns = <<>>
        /\ diff.missing_columns = <<>>

\* C3 witness: the diff of a snapshot of two tables with itself
C3_Witness ==
    /\ pc = "diffed"
    /\ test_snap = prod_snap
    /\ Len(test_snap) >= 2

\* a snapshot with everything but the table and column names erased
NamesOnly(schema) ==
    [i \in DOMAIN schema |->
        TableSchema(schema[i].name,
                    [j \in DOMAIN schema[i].columns |->
                        ColumnSchema(schema[i].columns[j].name, "text", TRUE, None)],
                    <<>>)]

\* the names a diff reports
DiffNames(d) ==
    [new_tables |-> [i \in DOMAIN d.new_tables |-> d.new_tables[i].name],
     missing_tables |->
        [i \in DOMAIN d.missing_tables |-> d.missing_tables[i].name],
     orphan_columns |-> d.orphan_columns,
     missing_columns |->
        [i \in DOMAIN d.missing_columns |->
            [table |-> d.missing_columns[i].table,
             columns |-> [j \in DOMAIN d.missing_columns[i].columns |->
                            d.missing_columns[i].columns[j].name]]]]

\* C4: the names the diff reports are those it reports for the same table
\* and column names with every type, nullability, default and primary key
\* replaced by fixed ones, so two snapshot pairs with the same names get the
\* same new/missing table names and orphan/missing column names.
C4_NamesOnly ==
    pc = "diffed" =>
        DiffNames(diff) =
            DiffNames(_compute_diff(NamesOnly(test_snap), NamesOnly(prod_snap)))

\* C4 witness: a common table whose columns of the same name differ in type,
\* nullability and default between the two snapshots, with a column missing
C4_Witness ==
    /\ pc = "diffed"
    /\ diff.missing_columns # <<>>
    /\ \E t \in CommonTableNames :
         \E c \in Range(TableOf(test_snap, t).columns) :
           \E p \in Range(TableOf(prod_snap, t).columns) :
             /\ c.name = p.name
             /\ c.column_type # p.column_type
             /\ c.is_nullable # p.is_nullable
             /\ TableOf(test_snap, t).primary_key # TableOf(prod_snap, t).primary_key

(***************************************************************************)
(* Properties of the reconciler (checked under Spec).  The log is the      *)
(* history of the run, so a statement about the order of calls is a state  *)
(* predicate on it.                                                        *)
(***************************************************************************)
IsPrompt(e) ==
    e.op \in {"prompt_discard", "prompt_key", "prompt_not_null", "prompt_default"}

\* the answer of a logged prompt, trimmed and lower-cased, is y
SaidYes(e) == lower(strip(e.text)) = <<"y">>

\* a logged yes/no prompt is about orphan columns (else: a missing table)
IsOrphanPrompt(e) == e.op = "prompt_discard" /\ HasTable(test_snap, e.table)

\* the target has been introspected a second time
Reintrospected ==
    \E k \in DOMAIN log : k > 2 /\ log[k].op = "fetch_schema"

\* the run completed without an error
Completed == pc = "done"

\* the column names the target database has in a table
TargetColumns(t) == ColNamesOf(TableOf(fetch_schema(prod_db), t))

\* C5: when run_sync has completed without error, every table of the
\* reference snapshot exists in the target and every column name of each
\* reference table exists in the target table of that name, whatever was
\* answered at the prompts.
C5_ReferenceSchemaInTarget ==
    Completed =>
        /\ test_snap = fetch_schema(test_db)
        /\ \A k \in DOMAIN test_snap :
              /\ HasTable(fetch_schema(prod_db), test_snap[k].name)
              /\ ColNamesOf(test_snap[k]) \subseteq TargetColumns(test_snap[k].name)

\* C5 witness: a completed run that created a table, added a column and had
\* a destructive prompt declined
C5_Witness ==
    /\ Completed
    /\ \E k \in DOMAIN log : log[k].op = "create_table"
    /\ \E k \in DOMAIN log : log[k].op = "add_column"
    /\ \E k \in DOMAIN log : log[k].op = "prompt_discard" /\ ~SaidYes(log[k])

\* C7: every drop_column and drop_table call comes after a prompt for its
\* table that was answered y (trimmed, lower-cased), and a dropped column is
\* one the prompt listed; there is one prompt per table, the prompt for
\* orphan columns lists all orphan columns of the table and a yes drops all of
\* them; after any other answer no drop is issued for the table and the
\* columns, or the table, stay in the target.
C7_DropsGated ==
    /\ \A k \in DOMAIN log :
          log[k].op \in {"drop_column", "drop_table"} =>
              \E j \in 1..(k - 1) :
                  /\ log[j].op = "prompt_discard"
                  /\ log[j].table = log[k].table
                  /\ SaidYes(log[j])
                  /\ IsOrphanPrompt(log[j]) <=> log[k].op = "drop_column"
                  /\ log[k].op = "drop_column" =>
                        log[k].cols[1] \in Range(log[j].cols)
    /\ \A j, k \in DOMAIN log :
          /\ log[j].op = "prompt_discard"
          /\ log[k].op = "prompt_discard"
          /\ log[j].table = log[k].table
          => j = k
    /\ \A j \in DOMAIN log :
          IsOrphanPrompt(log[j]) =>
              /\ DictHas(diff.orphan_columns, log[j].table)
              /\ log[j].cols = DictGet(diff.orphan_columns, log[j].table)
              /\ LET dropped == {log[k].cols[1] : k \in {m \in DOMAIN log :
                                    /\ log[m].op = "drop_column"
                                    /\ log[m].table = log[j].table}}
                 IN  Range(log[j].cols) =
                        (TargetColumns(log[j].table) \cup dropped)
                           \ ColNamesOf(TableOf(test_snap, log[j].table))
    /\ \A j \in DOMAIN log :
          log[j].op = "prompt_discard" /\ ~SaidYes(log[j]) =>
              /\ \A k \in DOMAIN log :
                    log[k].op \in {"drop_column", "drop_table"} =>
                        log[k].table # log[j].table
              /\ log[j].table \in DOMAIN prod_db
              /\ IsOrphanPrompt(log[j]) =>
                    Range(log[j].cols) \subseteq TargetColumns(log[j].table)
    /\ \A j \in DOMAIN log :
          log[j].op = "prompt_discard" /\ SaidYes(log[j]) /\ Reintrospected =>
              IF IsOrphanPrompt(log[j])
              THEN \A c \in Range(log[j].cols) :
                      /\ c \notin TargetColumns(log[j].table)
                      /\ \E k \in DOMAIN log :
                            /\ k > j
                            /\ log[k].op = "drop_column"
                            /\ log[k].table = log[j].table
                            /\ log[k].cols = <<c>>
              ELSE /\ log[j].table \notin DOMAIN prod_db
                   /\ \E k \in DOMAIN log :
                         /\ k > j
                         /\ log[k].op = "drop_table"
                         /\ log[k].table = log[j].table

\* C7 witness: a completed run in which the prompt for two orphan columns of
\* a table was answered " Y " and both were dropped, and the prompt for a
\* missing table was answered "yes" and the table was kept
C7_Witness ==
    /\ Completed
    /\ \E j \in DOMAIN log :
          /\ IsOrphanPrompt(log[j])
          /\ Len(log[j].cols) = 2
          /\ log[j].text = <<" ", "Y", " ">>
          /\ \A c \in Range(log[j].cols) : c \notin TargetColumns(log[j].table)
    /\ \E j \in DOMAIN log :
          /\ log[j].op = "prompt_discard"
          /\ ~IsOrphanPrompt(log[j])
          /\ log[j].text = <<"y", "e", "s">>
          /\ log[j].table \in DOMAIN prod_db

\* the number of logged calls of an operation on a table and a column list
Calls(op, table, cols) ==
    Cardinality({k \in DOMAIN log : /\ log[k].op = op
                                    /\ log[k].table = table
                                    /\ log[k].cols = cols})

\* C8: no prompt is issued before a create_table or an add_column call, and
\* once the first prompt is issued or the target is introspected again,
\* create_table has been called once for every table of diff.new_tables and
\* add_column once for every column of diff.missing_columns, and nothing
\* else; those tables and columns are in the target whatever is answered
\* later.
C8_AdditiveUnprompted ==
    /\ \A k \in DOMAIN log :
          log[k].op \in {"create_table", "add_column"} =>
              /\ \A j \in 1..(k - 1) : ~IsPrompt(log[j])
              /\ log[k].table \in DOMAIN prod_db
              /\ log[k].op = "create_table" =>
                    \E x \in DOMAIN diff.new_tables :
                        /\ diff.new_tables[x].name = log[k].table
                        /\ log[k].cols = NamesOfColumns(diff.new_tables[x].columns)
              /\ log[k].op = "add_column" =>
                    /\ DictHas(diff.missing_columns, log[k].table)
                    /\ log[k].cols[1] \in
                          Range(NamesOfColumns(
                                  DictGet(diff.missing_columns, log[k].table)))
                    /\ log[k].cols[1] \in TargetColumns(log[k].table)
    /\ (Reintrospected \/ \E k \in DOMAIN log : IsPrompt(log[k])) =>
          /\ \A x \in DOMAIN diff.new_tables :
                /\ Calls("create_table", diff.new_tables[x].name,
                         NamesOfColumns(diff.new_tables[x].columns)) = 1
                /\ ColNamesOf(diff.new_tables[x]) \subseteq
                      TargetColumns(diff.new_tables[x].name)
          /\ \A x \in DOMAIN diff.missing_columns :
                \A y \in DOMAIN diff.missing_columns[x].columns :
                    Calls("add_column", diff.missing_columns[x].table,
                          <<diff.missing_columns[x].columns[y].name>>) = 1

\* C8 witness: a table was created and a column added, then the operator
\* had the orphan columns dropped and the run completed
C8_Witness ==
    /\ Completed
    /\ diff.new_tables # <<>>
    /\ diff.missing_columns # <<>>
    /\ \E k \in DOMAIN log : log[k].op = "drop_column"

\* the step of run_sync a logged call belongs to
StepOf(k) ==
    CASE log[k].op = "fetch_schema" -> IF k <= 2 THEN 1 ELSE 6
      [] log[k].op = "create_table" -> 2
      [] log[k].op = "add_column" -> 3
      [] log[k].op = "drop_column" \/ IsOrphanPrompt(log[k]) -> 4
      [] log[k].op = "drop_table" -> 5
      [] log[k].op = "prompt_discard" /\ ~IsOrphanPrompt(log[k]) -> 5
      [] log[k].op = "error" -> 8
      [] OTHER -> 7

\* C9: the calls of a run come in the order of the steps: the reference and
\* the target are introspected, then come all create_table calls, then all
\* add_column calls (those of one table in the order of the reference's
\* columns), then the orphan-column prompts and column drops, then the
\* missing-table prompts and table drops, then the one re-introspection of
\* the target, then data sync; no DML, no sync-key prompt and no other call
\* of data sync comes before the re-introspection.
C9_StepOrder ==
    /\ Len(log) >= 1 =>
          \/ log[1].op = "fetch_schema" /\ log[1].insp = "test"
          \/ log[1].op = "error"
    /\ Len(log) >= 2 =>
          \/ log[2].op = "fetch_schema" /\ log[2].insp = "prod"
          \/ log[2].op = "error"
    /\ LET steps == [k \in DOMAIN log |-> StepOf(k)]
       IN  /\ \A k \in 1..(Len(log) - 1) : steps[k] <= steps[k + 1]
           /\ Cardinality({k \in DOMAIN log : steps[k] = 6}) <= 1
           /\ \A k \in DOMAIN log : steps[k] = 6 => log[k].insp = "prod"
           /\ \A k \in DOMAIN log :
                 steps[k] = 7 => \E j \in 1..(k - 1) : steps[j] = 6
    /\ \A k \in DOMAIN log :
          log[k].op = "add_column" =>
              \A j \in 1..(k - 1) :
                  log[j].op = "add_column" /\ log[j].table = log[k].table =>
                      LET names == NamesOfColumns(
                                      TableOf(test_snap, log[k].table).columns)
                      IN  PosIn(names, log[j].cols[1]) < PosIn(names, log[k].cols[1])
    /\ pc \in {"sync", "key_prompt", "classify", "insert", "not_null",
               "drop_not_null", "update", "done"} => Reintrospected

\* C9 witness: a completed run with calls of every step: a table created, a
\* column added, an orphan column dropped, the target introspected again
\* and rows inserted
C9_Witness ==
    /\ Completed
    /\ \E k \in DOMAIN log : log[k].op = "create_table"
    /\ \E k \in DOMAIN log : log[k].op = "add_column"
    /\ \E k \in DOMAIN log : log[k].op = "drop_column"
    /\ \E k \in DOMAIN log : log[k].op = "insert_rows"

\* a reference row restricted to a column list
Restrict(row, cols) == [c \in Range(cols) |-> row[c]]

\* some row of the target table agrees with r on every column of r
Represented(t, r) ==
    /\ t \in DOMAIN prod_db
    /\ \E m \in DOMAIN prod_db[t].rows :
          \A c \in DOMAIN r : c \in DOMAIN prod_db[t].rows[m] =>
              prod_db[t].rows[m][c] = r[c]

\* the columns the reference and the target share in table t
SharedNow(t) ==
    SelectSeq(NamesOfColumns(test_db[t].columns),
              LAMBDA c : t \in DOMAIN prod_db /\ c \in ColNamesOf(prod_db[t]))

\* the first insert_rows call for a table holds the rows classified missing
IsFirstInsert(k) ==
    /\ log[k].op = "insert_rows"
    /\ \A j \in 1..(k - 1) :
          ~(log[j].op = "insert_rows" /\ log[j].table = log[k].table)

\* no NULL of the row was replaced by a value the operator supplied
Unaltered(t, r) ==
    \A c \in DOMAIN r :
        r[c] = None =>
            ~(<<t, c>> \in DOMAIN memo /\ memo[<<t, c>>].action = "default")

\* C6 as stated: when run_sync has completed without error, for every
\* reference table and every row of it some row of the target table agrees
\* with it on all shared columns.
C6_EveryRowRepresented ==
    Completed =>
        \A t \in DOMAIN test_db : \A x \in DOMAIN test_db[t].rows :
            Represented(t, Restrict(test_db[t].rows[x], SharedNow(t)))

\* C6 amended: when run_sync has completed without error, a reference row is
\* represented in the target if data sync classified it as missing and
\* inserted it with none of its NULLs replaced by a value of the operator, or
\* classified it as existing while its sync-key value has no NULL and is the
\* sync-key value of no other such row.  (Rows of a table for which no sync
\* key is found, rows skipped for a primary-key conflict and the other rows
\* are not covered.)
C6_SyncedRowsRepresented ==
    Completed =>
        \A k \in DOMAIN log :
            LET e == log[k] IN
            /\ IsFirstInsert(k) =>
                  \A x \in DOMAIN e.rows :
                      Unaltered(e.table, e.rows[x]) =>
                          /\ DOMAIN e.rows[x] = Range(SharedNow(e.table))
                          /\ Represented(e.table, e.rows[x])
            /\ e.op = "update_rows" =>
                  \A x \in DOMAIN e.rows :
                      /\ \A c \in Range(e.key) : e.rows[x][c] # None
                      /\ \A y \in DOMAIN e.rows :
                            y # x => Project(e.rows[y], e.key) #
                                        Project(e.rows[x], e.key)
                      => /\ DOMAIN e.rows[x] = Range(SharedNow(e.table))
                         /\ Represented(e.table, e.rows[x])

\* C6 witness: a completed run that inserted one reference row and updated a
\* target row to another reference row with a different value in v
C6_Witness ==
    /\ Completed
    /\ counters.inserted >= 1
    /\ counters.updated >= 1
    /\ \E k \in DOMAIN log :
          /\ log[k].op = "update_rows"
          /\ log[k].key = <<"id">>
          /\ "v" \in Range(log[k].cols)
          /\ \E j \in 1..(k - 1) :
                /\ IsFirstInsert(j)
                /\ log[j].table = log[k].table
                /\ log[j].rows[1]["v"] # log[k].rows[1]["v"]

\* the table and column names and the primary keys of a snapshot
Shape(schema) ==
    [k \in DOMAIN schema |->
        [name |-> schema[k].name,
         columns |-> NamesOfColumns(schema[k].columns),
         primary_key |-> schema[k].primary_key]]

\* the tables the run created
CreatedTables ==
    {log[k].table : k \in {m \in DOMAIN log : log[m].op = "create_table"}}

\* the rows of the reference table t, over all its columns
ReferenceRows(t) ==
    fetch_rows(test_db, t, NamesOfColumns(test_db[t].columns))

\* data sync works on the snapshot taken after the schema changes: while it
\* runs, the snapshot has the tables, columns and primary keys the target
\* has; the shared columns of every fetch, insert and update are the
\* reference's columns that snapshot has, so they contain the columns added
\* and none of the columns dropped, and since every reference column is in
\* the target by then, they are exactly the reference's columns, also next
\* to an orphan column that was kept
SharedFromFreshSnapshot ==
    /\ Reintrospected => Shape(prod_snap) = Shape(fetch_schema(prod_db))
    /\ \A k \in DOMAIN log :
          log[k].op \in {"fetch_rows", "insert_rows", "update_rows"} =>
              LET t == log[k].table
                  cols == log[k].cols
              IN  /\ cols = SharedColumns(TableOf(test_snap, t),
                                          TableOf(fetch_schema(prod_db), t))
                  /\ cols = NamesOfColumns(TableOf(test_snap, t).columns)
                  /\ \A j \in DOMAIN log :
                        log[j].table = t =>
                            /\ log[j].op = "add_column" =>
                                  log[j].cols[1] \in Range(cols)
                            /\ log[j].op = "drop_column" =>
                                  log[j].cols[1] \notin Range(cols)
                            /\ log[j].op = "prompt_discard" =>
                                  \A c \in Range(log[j].cols) : c \notin Range(cols)

\* C10 as stated: data sync runs against the snapshot taken after the schema
\* changes, and the tables created in the run are synced: when the run has
\* completed, every row of such a reference table is in the target.
C10_CreatedTablesSynced ==
    /\ SharedFromFreshSnapshot
    /\ Completed =>
          \A t \in CreatedTables : \A x \in DOMAIN ReferenceRows(t) :
              Represented(t, ReferenceRows(t)[x])

\* C10 amended: data sync runs against the snapshot taken after the schema
\* changes; a table created in the run is in that snapshot and goes through
\* sync-key selection; when the run has completed, a created table with a
\* primary key holds exactly the reference's rows, and a created table
\* without a primary key was skipped by data sync and is empty.
C10_FreshSnapshotSync ==
    /\ SharedFromFreshSnapshot
    /\ Completed =>
          \A t \in CreatedTables :
              /\ HasTable(prod_snap, t)
              /\ \E k \in DOMAIN log :
                    /\ log[k].op = "is_column_unique"
                    /\ log[k].insp = "test"
                    /\ log[k].table = t
              /\ IF TableOf(test_snap, t).primary_key # <<>>
                 THEN prod_db[t].rows = ReferenceRows(t)
                 ELSE /\ prod_db[t].rows = <<>>
                      /\ \A k \in DOMAIN log :
                            log[k].op \in {"fetch_rows", "insert_rows"} =>
                                log[k].table # t

\* C10 witness: a completed run that created a table and inserted its row,
\* added a column to another table and kept an orphan column of it, and
\* fetched the rows of that table over the reference's columns
C10_Witness ==
    /\ Completed
    /\ \E k \in DOMAIN log :
          /\ log[k].op = "insert_rows"
          /\ log[k].table \in CreatedTables
          /\ prod_db[log[k].table].rows # <<>>
    /\ \E k \in DOMAIN log :
          /\ log[k].op = "fetch_rows"
          /\ \E j \in 1..(k - 1) :
                /\ log[j].op = "add_column"
                /\ log[j].table = log[k].table
          /\ \E j \in 1..(k - 1) :
                /\ IsOrphanPrompt(log[j])
                /\ ~SaidYes(log[j])
                /\ log[j].table = log[k].table

(***************************************************************************)
(* Properties of data sync (checked under Spec).                           *)
(***************************************************************************)
\* _sync_data is calling insert_rows: the batch is the rows classified
\* missing and the target is as it was when its key values were fetched
SyncDataInserts == pc = "insert" /\ call.depth = 0

\* the declared primary key of the target table being synced
ProdRealPk == TableOf(prod_snap, sync.table).primary_key

JustClassified ==
    /\ pc \in {"insert", "update"}
    /\ log # <<>>
    /\ log[Len(log)].op = "fetch_rows"

\* the tuples the target table holds in the columns of key
TargetTuples(key) ==
    {Project(prod_db[sync.table].rows[k], key) :
        k \in DOMAIN prod_db[sync.table].rows}

\* the class the claim gives a reference row
ClassOf(row) ==
    IF Project(row, sync.sync_key) \in TargetTuples(sync.sync_key)
    THEN "existing"
    ELSE IF ProdRealPk # <<>> /\ Project(row, ProdRealPk) \in TargetTuples(ProdRealPk)
    THEN "skipped"
    ELSE "missing"

\* the rows of a class in the order they were fetched
RowsOfClass(class) ==
    SelectSeq(fetch_rows(test_db, sync.table, sync.shared_columns),
              LAMBDA row : ClassOf(row) = class)

ClassifiedAsStated ==
    JustClassified =>
        /\ sync.existing_rows = RowsOfClass("existing")
        /\ sync.skipped_rows = RowsOfClass("skipped")
        /\ sync.missing_rows = RowsOfClass("missing")
        /\ Len(sync.existing_rows) + Len(sync.skipped_rows)
              + Len(sync.missing_rows) = Len(test_db[sync.table].rows)
        /\ Range(sync.existing_rows) \cap Range(sync.missing_rows) = {}
        /\ Range(sync.skipped_rows) \cap Range(sync.missing_rows) = {}
        /\ Range(sync.skipped_rows) \cap Range(sync.existing_rows) = {}
        /\ pc = "insert" => call.rows = sync.missing_rows

PassedAsClassified ==
    /\ SyncDataInserts /\ log'[Len(log) + 1].op = "insert_rows"
          => log'[Len(log) + 1].rows = sync.missing_rows
    /\ pc = "update" =>
          \A k \in DOMAIN log' :
              k > Len(log) /\ log'[k].op \in {"update_rows", "UPDATE"}
                  => log'[k].rows = sync.existing_rows

\* C20: of the rows _sync_data fetched from a reference table, those whose
\* sync-key tuple the target holds are the batch of update_rows; of the
\* others, those whose primary-key tuple the target holds (when it declares
\* a primary key) are skipped; the rest is the batch of insert_rows.  The
\* three classes are disjoint and cover the rows, so no reference row is
\* passed both to insert_rows and to update_rows, and a skipped row to
\* neither.
C20_ThreeClasses == []ClassifiedAsStated /\ [][PassedAsClassified]_vars

\* a table was classified into a row to update and a row that is skipped
C20_Witness ==
    /\ JustClassified
    /\ pc = "update"
    /\ Len(sync.existing_rows) = 1
    /\ Len(sync.skipped_rows) = 1
    /\ sync.missing_rows = <<>>

(***************************************************************************)
(* Properties of insert_rows and the NULL-conflict protocol (checked under *)
(* SpecInsert, where not said otherwise).                                  *)
(***************************************************************************)
\* the answer of a logged NOT NULL prompt is one of the two actions
ValidDecision(e) == lower(strip(e.text)) \in {<<"d">>, <<"v">>}

\* the logged NOT NULL prompts for a table and column that were answered
\* with an action
DecisionsAsked(table, column) ==
    {k \in DOMAIN log : /\ log[k].op = "prompt_not_null"
                        /\ log[k].table = table
                        /\ log[k].cols = <<column>>
                        /\ ValidDecision(log[k])}

\* the pair of the violation being handled
Pair == <<call.table, call.column>>

\* once the operator has answered the NOT NULL prompt for a table and
\* column with an action, no prompt for that pair follows; every stored
\* decision was asked for exactly once
AskedOnce ==
    /\ \A k \in DOMAIN log :
          log[k].op \in {"prompt_not_null", "prompt_default"} =>
              \A j \in DecisionsAsked(log[k].table, log[k].cols[1]) :
                  j >= k \/ (j = k - 1 /\ log[k].op = "prompt_default")
    /\ \A key \in DOMAIN memo :
          Cardinality(DecisionsAsked(key[1], key[2])) = 1
    /\ \A k \in DOMAIN log :
          log[k].op = "prompt_not_null" /\ ValidDecision(log[k]) /\ pc # "failed"
              => <<log[k].table, log[k].cols[1]>> \in DOMAIN memo

\* a violation on a pair with a stored decision applies that decision and
\* neither prompts nor changes the memo
ReusesDecision ==
    pc = "not_null" /\ Pair \in DOMAIN memo =>
        /\ log' = log
        /\ memo' = memo
        /\ IF memo[Pair].action = "drop"
           THEN pc' = "drop_not_null" /\ call' = call
           ELSE /\ pc' = "insert"
                /\ call'.rows = _replace_null_with_default(call.column, call.rows,
                                                           memo[Pair].payload)

\* C12: over the calls and retries of insert_rows on one Inspector the
\* operator is asked to resolve a NOT NULL violation at most once per table
\* and column (a prompt repeated after an invalid line aside); a later
\* violation on the pair, in the same batch or a later one, reuses the
\* stored decision without a prompt.
C12_Memoization == []AskedOnce /\ [][ReusesDecision]_vars

\* C12 witness: two batches of one row, each violating NOT NULL on the same
\* column and inserted on the retry, with one prompt in all
C12_Witness ==
    /\ pc = "done"
    /\ tpos = 2
    /\ counters.inserted = 2
    /\ Cardinality({k \in DOMAIN log : log[k].op = "insert_rows"}) = 4
    /\ Cardinality({k \in DOMAIN log : log[k].op = "prompt_not_null"}) = 1

\* an attempt of insert_rows failed with a NOT NULL violation that names a
\* column, and the NULL-conflict protocol starts
AttemptFails == pc = "insert" /\ pc' = "not_null"

\* an attempt of insert_rows succeeded, and the call returns
AttemptReturns == pc = "insert" /\ pc' \notin {"insert", "not_null", "failed"}

\* C16 as stated: an attempt that fails with a NOT NULL violation leaves none
\* of its rows in the target, and the attempt that succeeds adds each row of
\* the batch once and counts as many rows as the batch has, so that a call
\* that returns has inserted each input row exactly once.
C16_NoPartialCommit ==
    [][/\ AttemptFails =>
            prod_db'[sync.table].rows = prod_db[sync.table].rows
       /\ AttemptReturns =>
            /\ Len(prod_db'[sync.table].rows)
                   = Len(prod_db[sync.table].rows) + Len(call.rows)
            /\ counters'.inserted = counters.inserted + Len(call.rows)]_vars

\* a retry of insert_rows, made after the decision for call.column was
\* applied, fails with a NOT NULL violation again
RetryFails == AttemptFails /\ call.depth > 0

\* C17 as stated: every retry of insert_rows is caused by a violation on a
\* column that was not handled before in the call (so after a decision for
\* column c the retried insert does not violate NOT NULL on c again), and a
\* call makes at most as many retries as the table has columns.
C17_AlwaysRecovered ==
    /\ [](pc \in {"insert", "not_null", "drop_not_null"} =>
              call.depth <= Len(prod_db[sync.table].columns))
    /\ [][RetryFails => call'.column # call.column]_vars

\* the stored decision for the reported column is to drop the constraint
DropDecided == pc = "not_null" /\ pc' = "drop_not_null"

\* the constraint was dropped and the insert is retried
DropRetries == pc = "drop_not_null" /\ pc' = "insert"

\* the stored decision for the reported column is a substitute value, and
\* the insert is retried
SubstituteRetries == pc = "not_null" /\ pc' = "insert"

\* table t of db2 is table t of db1 with NOT NULL dropped from column c and
\* nothing else changed
OnlyNotNullDropped(db1, db2, t, c) ==
    /\ DOMAIN db2 = DOMAIN db1
    /\ \A n \in DOMAIN db1 : n # t => db2[n] = db1[n]
    /\ db2[t].rows = db1[t].rows
    /\ db2[t].primary_key = db1[t].primary_key
    /\ Len(db2[t].columns) = Len(db1[t].columns)
    /\ \A k \in DOMAIN db1[t].columns :
          IF db1[t].columns[k].name = c
          THEN db2[t].columns[k] = [db1[t].columns[k] EXCEPT !.is_nullable = TRUE]
          ELSE db2[t].columns[k] = db1[t].columns[k]

\* C18: a drop decision issues ALTER TABLE ... DROP NOT NULL on the reported
\* column and retries with the rows of the failed attempt unchanged; a
\* substitute decision issues no DDL and retries with a batch in which every
\* NULL of the reported column is the captured value, and every other value
\* of that column and every value of every other column is unchanged.
C18_DecisionApplied ==
    [][/\ DropDecided =>
            /\ call' = call
            /\ prod_db' = prod_db
       /\ DropRetries =>
            /\ log' = Append(log, Event("drop_not_null", "prod", call.table,
                                        <<call.column>>, <<>>))
            /\ OnlyNotNullDropped(prod_db, prod_db', call.table, call.column)
            /\ call'.rows = call.rows
       /\ SubstituteRetries =>
            /\ prod_db' = prod_db
            /\ \A k \in DOMAIN log' : k > Len(log) => IsPrompt(log'[k])
            /\ Len(call'.rows) = Len(call.rows)
            /\ \A k \in DOMAIN call.rows :
                  LET old == call.rows[k]
                      new == call'.rows[k]
                      value == memo'[<<call.table, call.column>>].payload
                  IN  /\ \A c \in DOMAIN old :
                            c # call.column \/ old[c] # None => new[c] = old[c]
                      /\ call.column \in DOMAIN new
                      /\ new[call.column] # None
                      /\ call.column \notin DOMAIN old \/ old[call.column] = None
                            => new[call.column] = value
                      /\ DOMAIN new \subseteq DOMAIN old \cup {call.column}]_vars

\* a call returned after a substitute decision for id and a drop decision
\* for v: the row went in with the value typed for id and NULL in v
C18_Witness ==
    /\ pc = "done"
    /\ \E k \in DOMAIN log : log[k].op = "drop_not_null" /\ log[k].cols = <<"v">>
    /\ \E k \in DOMAIN log : log[k].op = "prompt_default" /\ log[k].cols = <<"id">>
    /\ \E k \in DOMAIN prod_db["a"].rows :
          /\ prod_db["a"].rows[k]["id"] = "1"
          /\ prod_db["a"].rows[k]["v"] = None

\* the exception a step of insert_rows raised out of the call, if any
RaisedBy(error, column) ==
    /\ Len(log') = Len(log) + 2
    /\ log'[Len(log')].op = "raise"
    /\ log'[Len(log')].text = <<error>>
    /\ log'[Len(log')].cols = <<column>>

\* the step leaves insert_rows by the exception: no prompt, the memo as it
\* was, no DDL, no further attempt
Propagates ==
    /\ pc' = "failed"
    /\ memo' = memo
    /\ call' = call
    /\ fetch_schema(prod_db') = fetch_schema(prod_db)
    /\ \A k \in DOMAIN log' :
          k > Len(log) =>
              /\ ~IsPrompt(log'[k])
              /\ log'[k].op # "drop_not_null"
    /\ Cardinality({k \in DOMAIN log' : log'[k].op = "insert_rows"})
          = Cardinality({k \in DOMAIN log : log[k].op = "insert_rows"}) + 1

\* C19: an attempt of insert_rows that fails with a NOT NULL violation
\* without column name, or with an error that is no NOT NULL violation,
\* raises it: the operator is not asked, the memo is unchanged, no DDL is
\* issued and no retry follows (nothing follows the raise); the NULL-conflict
\* protocol is only ever entered with a column name.
C19_RaisesWithoutRetry ==
    /\ [](pc \in {"not_null", "drop_not_null"} => call.column # "")
    /\ [][/\ pc # "failed"
          /\ pc = "insert" /\ RaisedBy("NotNullViolation", "") => Propagates
          /\ pc = "insert" /\ RaisedBy("UniqueViolation", "") => Propagates
          /\ /\ pc = "insert"
             /\ InsertMany(prod_db[sync.table], sync.shared_columns,
                           call.rows, 1).error = "UniqueViolation"
             => pc' = "failed" /\ memo' = memo]_vars

\* a retry, made after a decision was stored, raised a NOT NULL violation
\* that names no column
C19_Witness ==
    /\ pc = "failed"
    /\ call.depth > 0
    /\ memo # NoMemo
    /\ log[Len(log)].op = "raise"
    /\ log[Len(log)].text = <<"NotNullViolation">>
    /\ log[Len(log)].cols = <<"">>

(***************************************************************************)
(* Properties of two runs in a row (checked under SpecTwice).              *)
(***************************************************************************)
\* the position in the log at which the second run starts (0: not started)
SecondRunStart ==
    IF \E k \in DOMAIN log : log[k].op = "run_sync"
    THEN CHOOSE k \in DOMAIN log : log[k].op = "run_sync"
    ELSE 0

\* the operator answers each prompt once, and a prompt of the second run
\* that the first run issued too gets the answer it got then
SameAnswers ==
    \A j, k \in DOMAIN log :
        /\ j < k
        /\ IsPrompt(log[j])
        /\ log[k].op = log[j].op
        /\ log[k].table = log[j].table
        /\ log[k].cols = log[j].cols
        => /\ j < SecondRunStart
           /\ SecondRunStart < k
           /\ log[k].text = log[j].text

\* C13 as stated: when a run follows a completed run with no change to
\* either database in between and the operator answers as before, the
\* second run issues no create_table, no add_column, no drop and no DROP NOT
\* NULL, inserts no row, and when it has completed the target holds the rows
\* it held when the second run started.
C13_SecondRunIdle ==
    SecondRunStart > 0 /\ SameAnswers =>
        /\ \A k \in DOMAIN log :
              k > SecondRunStart =>
                  log[k].op \notin {"create_table", "add_column", "drop_column",
                                    "drop_table", "drop_not_null", "insert_rows"}
        /\ counters.inserted = 0
        /\ pc = "done" =>
              \A k \in 1..(SecondRunStart - 1) :
                  log[k].op = "state" =>
                      /\ log[k].table \in DOMAIN prod_db
                      /\ prod_db[log[k].table].rows = log[k].rows

\* the second run inserts a row again whose NULL the first run replaced
C13_SecondRunInsertsAgain ==
    /\ SecondRunStart > 0
    /\ SameAnswers
    /\ pc = "done"
    /\ counters.inserted = 1
    /\ \A k \in DOMAIN log :
          log[k].op \notin {"create_table", "add_column", "drop_column",
                            "drop_table", "drop_not_null"}
    /\ \E k \in DOMAIN log : \E j \in DOMAIN log :
          /\ j < SecondRunStart
          /\ SecondRunStart < k
          /\ IsFirstInsert(j)
          /\ log[k].op = "insert_rows"
          /\ log[k].rows = log[j].rows

(***************************************************************************)
(* Properties of foreign keys.                                             *)
(***************************************************************************)

\* both snapshots were fetched and the diff was computed
DiffComputed ==
    /\ Len(log) >= 2
    /\ log[1].op = "fetch_schema"
    /\ log[2].op = "fetch_schema"

\* the foreign keys declared on the reference's table t that the target's
\* table t lacks; all of them when the target has no table t
MissingForeignKeys(t) ==
    LET have == IF t \in DOMAIN prod_db
                THEN Range(prod_db[t].foreign_keys) ELSE {}
    IN  SelectSeq(test_db[t].foreign_keys, LAMBDA fk : fk \notin have)

\* C14 as stated: once the diff is computed, it has an entry
\* missing_foreign_keys[t] holding every foreign key declared on reference
\* table t that the target table lacks, also when t is absent from the
\* target.
C14_MissingForeignKeysReported ==
    DiffComputed =>
        \A t \in DOMAIN test_db :
            MissingForeignKeys(t) # <<>> =>
                /\ "missing_foreign_keys" \in DOMAIN diff
                /\ \E k \in DOMAIN diff.missing_foreign_keys :
                      /\ diff.missing_foreign_keys[k].table = t
                      /\ diff.missing_foreign_keys[k].columns = MissingForeignKeys(t)

\* C15 as stated: when run_sync has completed, add_foreign_key was called on
\* the target inspector exactly once for every foreign key of the reference
\* that the target lacked, and the target table has that foreign key.  (The
\* target declares no foreign key at the start, and none is ever dropped.)
C15_ForeignKeysAdded ==
    Completed =>
        \A t \in DOMAIN test_db :
            \A f \in DOMAIN test_db[t].foreign_keys :
                LET fk == test_db[t].foreign_keys[f]
                IN  /\ Cardinality({k \in DOMAIN log :
                                       /\ log[k].op = "add_foreign_key"
                                       /\ log[k].insp = "prod"
                                       /\ log[k].table = t
                                       /\ log[k].cols = fk.columns}) = 1
                    /\ t \in DOMAIN prod_db
                    /\ fk \in Range(prod_db[t].foreign_keys)

(***************************************************************************)
(* Properties of classification and of the order of data sync (checked     *)
(* under Spec).                                                            *)
(***************************************************************************)

\* the columns data sync shares for the table it is about to classify
SharedNext ==
    SharedColumns(test_snap[tpos], TableOf(prod_snap, sync.table))

\* the reference rows whose sync-key tuple the target does not hold
AbsentRows ==
    SelectSeq(fetch_rows(test_db, sync.table, SharedNext),
              LAMBDA row : Project(row, sync.sync_key) \notin
                  fetch_primary_key_values(prod_db, sync.table, sync.sync_key))

\* _sync_data is about to classify a table whose target primary key has a
\* column outside shared_columns, the sync key lies within them, and some
\* reference row has a sync-key tuple the target does not hold
PkOutsideShared ==
    /\ pc = "classify"
    /\ SharedNext # <<>>
    /\ Range(sync.sync_key) \subseteq Range(SharedNext)
    /\ ProdRealPk # <<>>
    /\ ~(Range(ProdRealPk) \subseteq Range(SharedNext))
    /\ AbsentRows # <<>>

\* the step is the classification (and not a failing connection)
Classifies == log' # log /\ log'[Len(log')].op = "fetch_rows"

\* C21 as stated: when the target's declared primary key has a column that
\* is not in shared_columns, classification completes without an error and
\* the reference rows whose sync-key tuple is absent from the target are
\* the batch passed to insert_rows.
C21_PkCheckNotApplied ==
    [][PkOutsideShared /\ Classifies =>
          /\ pc' = "insert"
          /\ call'.rows = AbsentRows]_vars

\* the log entries of data sync: the calls and prompts that name a table,
\* after the target was introspected again
IsSyncEvent(k) ==
    /\ log[k].table # ""
    /\ \E j \in 1..(k - 1) : j > 2 /\ log[j].op = "fetch_schema"

\* the place of a table in the iteration order of the reference snapshot
TablePlace(t) == CHOOSE i \in DOMAIN test_snap : test_snap[i].name = t

\* C22: the log entries of data sync come table after table in the
\* iteration order of the reference snapshot, never returning to an earlier
\* table; within a table nothing but its UPDATE statement follows the
\* update_rows call, so an insert_rows call of the table comes before its
\* update_rows call.
C22_TableOrder ==
    \A k \in DOMAIN log :
        k < Len(log) /\ IsSyncEvent(k) /\ log[k + 1].table # "" =>
            /\ HasTable(test_snap, log[k].table)
            /\ HasTable(test_snap, log[k + 1].table)
            /\ TablePlace(log[k].table) <= TablePlace(log[k + 1].table)
            /\ log[k].op = "update_rows" /\ log[k + 1].op # "UPDATE" =>
                  TablePlace(log[k].table) < TablePlace(log[k + 1].table)
            /\ log[k].op = "UPDATE" =>
                  TablePlace(log[k].table) < TablePlace(log[k + 1].table)
            /\ log[k + 1].op = "UPDATE" => log[k].op = "update_rows"

\* a run completed that inserted into table a and then updated table b
C22_Witness ==
    /\ pc = "done"
    /\ \E j, k \in DOMAIN log :
          /\ j < k
          /\ log[j].op = "insert_rows" /\ log[j].table = "a"
          /\ log[k].op = "update_rows" /\ log[k].table = "b"

\* a run completed that inserted into a table and then updated it
C22_InsertThenUpdate ==
    /\ pc = "done"
    /\ \E j, k \in DOMAIN log :
          /\ j < k
          /\ log[j].op = "insert_rows"
          /\ log[k].op = "update_rows"
          /\ log[j].table = log[k].table

\* the table data sync turns to next
TableNext == test_snap[tpos].name

\* sync-key selection has nothing to return for the table: reference and
\* target share no column name, or no shared column is unique on both sides
\* and the target table declares no primary key
NoSyncKey ==
    LET prod_table == TableOf(prod_snap, TableNext)
        common == ColNamesOf(test_snap[tpos]) \cap ColNamesOf(prod_table)
    IN  \/ common = {}
        \/ /\ prod_table.primary_key = <<>>
           /\ \A c \in common :
                 ~(/\ is_column_unique(test_db, TableNext, c)
                   /\ is_column_unique(prod_db, TableNext, c))

\* data sync moves on to the next table of the reference snapshot, or ends
\* after the last one
MovesOn ==
    IF tpos < Len(test_snap)
    THEN pc' = "sync" /\ tpos' = tpos + 1
    ELSE pc' = "done"

\* C23: when data sync turns to a table that has no column name common to
\* reference and target, or for which sync-key selection returns none, it
\* issues no fetch_rows, insert_rows or update_rows (and no prompt) for it,
\* leaves the target as it is and goes on with the next table.
C23_SkippedTables ==
    [][/\ pc = "sync"
       /\ tpos <= Len(test_snap)
       /\ HasTable(prod_snap, TableNext)
       /\ NoSyncKey
       => /\ MovesOn
          /\ prod_db' = prod_db
          /\ counters' = counters
          /\ \A k \in DOMAIN log' :
                k > Len(log) =>
                    /\ log'[k].op = "is_column_unique"
                    /\ log'[k].table = TableNext]_vars

\* a run completed in which table a was skipped for want of a sync key,
\* after its columns were tested, and table b was synced
C23_Witness ==
    /\ pc = "done"
    /\ \E k \in DOMAIN log : log[k].op = "is_column_unique" /\ log[k].table = "a"
    /\ \A k \in DOMAIN log : log[k].op = "fetch_rows" => log[k].table = "b"
    /\ \E k \in DOMAIN log : log[k].op = "insert_rows" /\ log[k].table = "b"

\* the column names reference and target share for the table
CommonNext ==
    ColNamesOf(test_snap[tpos]) \cap ColNamesOf(TableOf(prod_snap, TableNext))

\* no shared column is unique on both sides
NoCandidate ==
    \A c \in CommonNext :
        ~(/\ is_column_unique(test_db, TableNext, c)
          /\ is_column_unique(prod_db, TableNext, c))

\* the step of data sync issues no prompt
NoPromptIssued ==
    /\ pc' # "key_prompt"
    /\ \A k \in DOMAIN log' : k > Len(log) => ~IsPrompt(log'[k])

\* C24: when sync-key selection has no candidate it decides without a
\* prompt: with no column name shared it returns none; with shared columns
\* of which none is unique on both sides it returns the target's declared
\* primary key when that is non-empty, and none otherwise.
C24_DecidesWithoutPrompt ==
    [][/\ pc = "sync"
       /\ tpos <= Len(test_snap)
       /\ HasTable(prod_snap, TableNext)
       /\ NoCandidate
       => /\ NoPromptIssued
          /\ IF /\ CommonNext # {}
                /\ TableOf(prod_snap, TableNext).primary_key # <<>>
             THEN /\ pc' = "classify"
                  /\ sync'.table = TableNext
                  /\ sync'.sync_key = TableOf(prod_snap, TableNext).primary_key
             ELSE MovesOn /\ sync' = NoSync]_vars

\* the declared primary key of a target table without rows was taken as the
\* sync key, and no prompt was issued
C24_Witness ==
    /\ pc = "classify"
    /\ sync.sync_key = <<"id">>
    /\ ProdRealPk = <<"id">>
    /\ prod_db[sync.table].rows = <<>>
    /\ \A k \in DOMAIN log : log[k].op # "prompt_key"

\* a line was read at the sync-key prompt
ReadsKeyLine ==
    /\ pc = "key_prompt"
    /\ Len(log') = Len(log) + 1
    /\ log'[Len(log')].op = "prompt_key"
    /\ log'[Len(log')].text # EOF

\* the line read, trimmed and lower-cased
KeyLine == lower(strip(log'[Len(log')].text))

\* the line is a decimal number
IsDecimalNumber(s) ==
    s # <<>> /\ \A k \in DOMAIN s : s[k] \in {"0", "1", "2", "3"}

\* C25 as stated: at the sync-key prompt a decimal number n with
\* 1 <= n <= number of candidates returns the key (candidates[n-1],), the
\* line p returns the target's declared primary key when that is non-empty,
\* and every other line is followed by the prompt again; so a returned key
\* is one candidate column or the declared primary key.  (Lines count
\* trimmed and lower-cased.)
C25_ValidInputOnly ==
    [][ReadsKeyLine =>
          IF /\ IsDecimalNumber(KeyLine)
             /\ 1 <= int(KeyLine)
             /\ int(KeyLine) <= Len(sync.potential_keys)
          THEN /\ pc' = "classify"
               /\ sync'.sync_key = <<sync.potential_keys[int(KeyLine)]>>
          ELSE IF KeyLine = <<"p">> /\ ProdRealPk # <<>>
          THEN /\ pc' = "classify"
               /\ sync'.sync_key = ProdRealPk
          ELSE /\ pc' = "key_prompt"
               /\ sync' = sync]_vars

\* the menu of log entry k prints the option p
OptionPrinted(k) == log[k].rows = <<"p">>

\* C26 as stated: the menu of sync-key selection prints the option to use
\* the target's full declared primary key exactly when that primary key is
\* non-empty and is not itself one of the listed single-column candidates;
\* a primary key of several columns is therefore always offered.
C26_PrimaryKeyOffered ==
    \A k \in DOMAIN log :
        log[k].op = "print_keys" =>
            LET primary_key == TableOf(prod_snap, log[k].table).primary_key
                listed == /\ Len(primary_key) = 1
                          /\ primary_key[1] \in Range(log[k].cols)
            IN  OptionPrinted(k) <=> (primary_key # <<>> /\ ~listed)

\* a sequence of column names in strictly ascending name order
Ascending(s) == \A x, y \in DOMAIN s : x < y => Rank(s[x]) < Rank(s[y])

\* sync-key selection presents its candidates
PresentsCandidates == pc = "sync" /\ pc' = "key_prompt"

\* C27: the candidate list presented for a table holds exactly the column
\* names common to reference and target for which is_column_unique holds on
\* the reference and on the target, in ascending name order.
C27_CandidateList ==
    [][PresentsCandidates =>
          LET menu == log'[Len(log')]
          IN  /\ menu.op = "print_keys"
              /\ menu.table = TableNext
              /\ menu.cols = sync'.potential_keys
              /\ Ascending(menu.cols)
              /\ Range(menu.cols) =
                    {c \in CommonNext :
                        /\ is_column_unique(test_db, TableNext, c)
                        /\ is_column_unique(prod_db, TableNext, c)}]_vars

\* two candidates are presented
C27_Witness ==
    /\ pc = "key_prompt"
    /\ sync.potential_keys = <<"id", "v">>
    /\ log[Len(log)].op = "print_keys"

\* one candidate is presented; the other common column is not unique
C27_OneCandidate ==
    /\ pc = "key_prompt"
    /\ sync.potential_keys = <<"v">>
    /\ "id" \in ColNamesOf(TableOf(test_snap, sync.table))
                   \cap ColNamesOf(TableOf(prod_snap, sync.table))

(***************************************************************************)
(* Properties of the Inspector's queries and statements.                   *)
(***************************************************************************)

\* the databases of the run
Databases == {test_db, prod_db}

\* the values the rows of a table hold in a column
ColumnValues(db, t, c) == [k \in DOMAIN db[t].rows |-> db[t].rows[k][c]]

\* some value of the sequence is not NULL, and the values that are not NULL
\* are pairwise distinct
DistinctNonNull(values) ==
    /\ \E k \in DOMAIN values : values[k] # None
    /\ \A x, y \in DOMAIN values :
          x # y /\ values[x] # None /\ values[y] # None => values[x] # values[y]

\* C28 as stated: is_column_unique is true iff the column has a non-NULL
\* value and its non-NULL values are distinct, and it is false for every
\* table content in which the column holds a NULL.
C28_NullsMakeNonUnique ==
    \A db \in Databases : \A t \in DOMAIN db : \A c \in ColNamesOf(db[t]) :
        /\ is_column_unique(db, t, c) <=> DistinctNonNull(ColumnValues(db, t, c))
        /\ None \in Range(ColumnValues(db, t, c)) => ~is_column_unique(db, t, c)

\* C28, corrected: is_column_unique is true iff the column has a non-NULL
\* value and its non-NULL values are distinct.  NULLs are not counted: a
\* column that holds only NULLs (or no row) is not unique, a column that
\* holds NULLs next to distinct non-NULL values is.
C28_UniqueAmongNonNull ==
    \A db \in Databases : \A t \in DOMAIN db : \A c \in ColNamesOf(db[t]) :
        LET values == ColumnValues(db, t, c)
        IN  /\ is_column_unique(db, t, c) <=> DistinctNonNull(values)
            /\ (\A k \in DOMAIN values : values[k] = None)
                  => ~is_column_unique(db, t, c)

\* sync-key selection found column id unique in a target table whose rows
\* hold a value and a NULL in it
C28_Witness ==
    /\ pc = "key_prompt"
    /\ "id" \in Range(sync.potential_keys)
    /\ \E k \in DOMAIN prod_db[sync.table].rows :
          prod_db[sync.table].rows[k]["id"] = None
    /\ \E k \in DOMAIN prod_db[sync.table].rows :
          prod_db[sync.table].rows[k]["id"] # None

\* update_rows is called
UpdateCalled ==
    /\ pc = "update"
    /\ Len(log') > Len(log)
    /\ log'[Len(log) + 1].op = "update_rows"

\* the columns of the columns argument that are not in sync_key, in order
SetList ==
    SelectSeq(sync.shared_columns, LAMBDA c : c \notin Range(sync.sync_key))

\* the call has nothing to do
NothingToUpdate ==
    \/ sync.shared_columns = <<>>
    \/ sync.existing_rows = <<>>
    \/ sync.sync_key = <<>>
    \/ SetList = <<>>

\* some row of the batch equals the target row in every sync_key column
MatchedByKey(target_row) ==
    \E k \in DOMAIN sync.existing_rows :
        \A c \in Range(sync.sync_key) :
            /\ target_row[c] # None
            /\ target_row[c] = sync.existing_rows[k][c]

C29_NothingToSet ==
    /\ pc = "done"
    /\ counters.updated = 0
    /\ Len(log) = 1
    /\ log[1].op = "update_rows"
    /\ log[1].cols = <<"id", "v">>
    /\ log[1].key = <<"id", "v">>
    /\ log[1].rows # <<>>

\* the column whose definition was rendered
RenderedColumn == test_snap[1].columns[1]

IsRendering(k) == log[k].op = "_column_definition"

\* the integer type names and the sequence defaults among the inputs
IntegerTypes == {"integer", "INTEGER"}
SequenceDefaults == {"nextval('s'::regclass)", "NEXTVAL('s')"}

\* C30: a column whose type contains 'integer' and whose default contains
\* 'nextval', in either case of letters, renders as <name> SERIAL with neither
\* NOT NULL nor DEFAULT; every other column renders as <name> <type>, then
\* NOT NULL iff it is not nullable, then DEFAULT <expr> iff it has a default.
C30_ColumnRendering ==
    \A k \in DOMAIN log :
        IsRendering(k) =>
            LET column == RenderedColumn
                parts == log[k].text
            IN  IF /\ column.column_type \in IntegerTypes
                   /\ column.default \in SequenceDefaults
                THEN parts = <<column.name, "SERIAL">>
                ELSE parts =
                       <<column.name, column.column_type>>
                         \o (IF column.is_nullable THEN <<>>
                             ELSE <<"NOT NULL">>)
                         \o (IF column.default = None THEN <<>>
                             ELSE <<"DEFAULT " \o column.default>>)

\* an upper-case INTEGER column with an upper-case NEXTVAL default was
\* rendered as SERIAL
C30_Witness ==
    \E k \in DOMAIN log :
        /\ IsRendering(k)
        /\ RenderedColumn.column_type = "INTEGER"
        /\ RenderedColumn.default = "NEXTVAL('s')"
        /\ log[k].text = <<RenderedColumn.name, "SERIAL">>

\* a NOT NULL integer column with the default 0 kept both clauses
C30_IntegerKeepsDefault ==
    \E k \in DOMAIN log :
        /\ IsRendering(k)
        /\ log[k].text = <<"v", "integer", "NOT NULL", "DEFAULT 0">>

(***************************************************************************)
(* Properties of the schema statements and of failures (checked under      *)
(* Spec)                                                                   *)
(***************************************************************************)
\* the step is a call of add_column that no connection error preempts
AddsColumn == pc = "add" /\ log'[Len(log')].op # "error"

\* C31: add_column adds the column as nullable also when the reference marks
\* it NOT NULL, with a default iff the reference column has one, and the
\* statement is never rejected because the target table has rows: the rows
\* stay as they are.
C31_AddedNullable ==
    [][AddsColumn =>
          LET table_name == diff.missing_columns[tpos].table
              column == diff.missing_columns[tpos].columns[cpos]
              before == prod_db[table_name]
              after == prod_db'[table_name]
              added == after.columns[Len(after.columns)]
          IN  /\ pc' # "failed"
              /\ log'[Len(log')].op = "add_column"
              /\ Len(after.columns) = Len(before.columns) + 1
              /\ added = ColumnSchema(column.name, column.column_type, TRUE,
                                      column.default)
              /\ Len(after.rows) = Len(before.rows)
              /\ \A k \in DOMAIN before.rows :
                    \A c \in DOMAIN before.rows[k] :
                        after.rows[k][c] = before.rows[k][c]]_vars

\* a column the reference marks NOT NULL, without default, was added to a
\* target table that has rows
C31_Witness ==
    /\ log # <<>>
    /\ log[Len(log)].op = "add_column"
    /\ LET table_name == log[Len(log)].table
           name == log[Len(log)].cols[1]
       IN  /\ \E k \in DOMAIN test_db[table_name].columns :
                 /\ test_db[table_name].columns[k].name = name
                 /\ ~test_db[table_name].columns[k].is_nullable
                 /\ test_db[table_name].columns[k].default = None
           /\ prod_db[table_name].rows # <<>>
           /\ \E k \in DOMAIN prod_db[table_name].columns :
                 /\ prod_db[table_name].columns[k].name = name
                 /\ prod_db[table_name].columns[k].is_nullable

\* the positions of run_sync at which a DDL call is made
DdlPositions == {"create", "add", "orphan_drop", "drop_table"}

\* the step is a DDL call that fails
DdlFails ==
    /\ pc \in DdlPositions
    /\ log'[Len(log')].op \in {"error", "rejected"}

\* C32: when a DDL call of run_sync fails the run ends there: the failing
\* step changes neither database, and after it no step is taken, so that
\* there is no retry, no further DDL, no re-introspection and no data sync,
\* and what was committed before stays.
C32_DdlFailureEndsRun ==
    [][/\ DdlFails => /\ pc' = "failed"
                      /\ prod_db' = prod_db
                      /\ test_db' = test_db
       /\ pc # "failed"]_vars

\* the second DDL call of a run failed after the first had created a table
C32_Witness ==
    /\ pc = "failed"
    /\ Len(log) >= 4
    /\ log[Len(log)].op = "error"
    /\ log[Len(log)].text[1] \in DdlPositions
    /\ log[Len(log) - 1].op = "create_table"
    /\ log[Len(log) - 1].table \in DOMAIN prod_db

\* the logged prompt met the end of the input
MetEof(e) == IsPrompt(e) /\ e.text = EOF

\* the step reads the end of the input at a prompt
ReadsEof == Len(log') > Len(log) /\ MetEof(log'[Len(log')])

\* C33: end of input at any prompt ends the run: the prompt is the last
\* thing the run did, the step records no decision in the memo, and it leaves
\* the databases as the steps before it left them.
C33_EofEndsRun ==
    /\ [](\A k \in DOMAIN log :
              MetEof(log[k]) => k = Len(log) /\ pc = "failed")
    /\ [][ReadsEof => /\ pc' = "failed"
                      /\ memo' = memo
                      /\ prod_db' = prod_db
                      /\ test_db' = test_db]_vars

\* the input ended at the prompt for the substitute value, after a column
\* had been added to the target: the column is there, the memo is empty
C33_Witness ==
    /\ pc = "failed"
    /\ log[Len(log)].op = "prompt_default"
    /\ MetEof(log[Len(log)])
    /\ memo = NoMemo
    /\ \E k \in DOMAIN log :
          /\ log[k].op = "add_column"
          /\ log[k].cols[1] \in ColNamesOf(prod_db[log[k].table])

\* the input ended at the sync-key prompt
C33_EofAtKeyPrompt ==
    /\ pc = "failed"
    /\ log # <<>>
    /\ log[Len(log)].op = "prompt_key"
    /\ MetEof(log[Len(log)])

\* the input ended at a confirmation, after a table had been created
C33_EofAtConfirmation ==
    /\ pc = "failed"
    /\ log # <<>>
    /\ log[Len(log)].op = "prompt_discard"
    /\ MetEof(log[Len(log)])
    /\ \E k \in DOMAIN log :
          log[k].op = "create_table" /\ log[k].table \in DOMAIN prod_db

(***************************************************************************)
(* Properties of the connections (checked under SpecConn)                  *)
(***************************************************************************)
\* C34: at most one connection is open at any moment, and none outside the
\* `with` block of an operation: none between two operations, none while
\* the operator is asked, and none in the NotNullViolation handler before
\* the prompt, before DROP NOT NULL and before the retry.
C34_OneConnection ==
    /\ Cardinality(conns) <= 1
    /\ pc # "connected" => conns = {}

\* the retry after DROP NOT NULL holds the only open connection
C34_Witness ==
    /\ pc = "connected"
    /\ call.depth = 2
    /\ conns = {[insp |-> "prod", op |-> "insert_rows", depth |-> 2]}
    /\ \E k \in DOMAIN log : log[k].op = "prompt_not_null"
    /\ \E k \in DOMAIN log : log[k].op = "_execute"

(***************************************************************************)
(* Properties of the frame of a run (checked under Spec)                   *)
(***************************************************************************)
\* C35 as stated: whenever _sync_data is about to classify the rows of a
\* table, every column of the chosen sync key is one of shared_columns, also
\* when the key is the target's declared primary key.
C35_KeyWithinShared ==
    pc = "classify" /\ SharedNext # <<>>
        => Range(sync.sync_key) \subseteq Range(SharedNext)

\* the step calls drop_table, or drop_column
DropsTable == pc = "drop_table" /\ log'[Len(log')].op = "drop_table"
DropsColumn == pc = "orphan_drop" /\ log'[Len(log')].op = "drop_column"

\* C36: drop_table is called only for a table that the reference snapshot
\* does not have, and drop_column only for a column of a table of both
\* snapshots that the reference table does not have; what the reference has
\* is in the target after the step as far as it was before.
C36_ReferenceNeverDropped ==
    [][/\ DropsTable =>
             LET table == log'[Len(log')].table
             IN  /\ ~HasTable(test_snap, table)
                 /\ HasTable(prod_snap, table)
                 /\ DOMAIN prod_db' = DOMAIN prod_db \ {table}
       /\ DropsColumn =>
             LET table == log'[Len(log')].table
                 column == log'[Len(log')].cols[1]
             IN  /\ HasTable(test_snap, table)
                 /\ HasTable(prod_snap, table)
                 /\ column \notin ColNamesOf(TableOf(test_snap, table))
                 /\ column \in ColNamesOf(TableOf(prod_snap, table))
                 /\ ColNamesOf(prod_db'[table])
                       = ColNamesOf(prod_db[table]) \ {column}]_vars

\* a run dropped an orphan column and a table only the target had, and the
\* target still has a table of the reference with all the reference's columns
C36_Witness ==
    /\ \E k \in DOMAIN log : log[k].op = "drop_column"
    /\ \E k \in DOMAIN log : log[k].op = "drop_table"
    /\ \E i \in DOMAIN test_snap :
          /\ test_snap[i].name \in DOMAIN prod_db
          /\ ColNamesOf(test_snap[i]) \subseteq ColNamesOf(prod_db[test_snap[i].name])

\* the operations that only read
ReadOperations == {"fetch_schema", "is_column_unique", "fetch_rows"}

\* the operations that write or that resolve a NOT NULL conflict
WriteOperations ==
    {"create_table", "add_column", "drop_column", "drop_table", "insert_rows",
     "update_rows", "UPDATE", "drop_not_null", "prompt_not_null",
     "prompt_default"}

\* C37: a run never changes the reference database: the reference inspector
\* is asked only for fetch_schema, is_column_unique and fetch_rows, and every
\* DDL statement, insert_rows, update_rows and NOT NULL prompt or decision is
\* the target inspector's.
C37_ReferenceUntouched ==
    /\ [](\A k \in DOMAIN log :
              /\ log[k].insp = "test" => log[k].op \in ReadOperations
              /\ log[k].op \in WriteOperations => log[k].insp = "prod")
    /\ [][test_db' = test_db]_vars

\* a run that created a table and inserted rows is complete, the reference
\* having been asked for its schema and its rows
C37_Witness ==
    /\ pc = "done"
    /\ \E k \in DOMAIN log : log[k].op = "create_table"
    /\ \E k \in DOMAIN log : log[k].op = "insert_rows"
    /\ \E k \in DOMAIN log : log[k].op = "fetch_rows" /\ log[k].insp = "test"
    /\ test_db # EmptyDb

\* the run is in _sync_data
InDataSync ==
    pc \in {"sync", "key_prompt", "classify", "insert", "not_null",
            "drop_not_null", "update"}

\* the sync-key tuples of the reference rows of the table being synced
ReferenceKeys ==
    IF /\ sync.table \in DOMAIN test_db
       /\ Range(sync.sync_key) \subseteq ColNamesOf(test_db[sync.table])
    THEN {Project(test_db[sync.table].rows[k], sync.sync_key) :
            k \in DOMAIN test_db[sync.table].rows}
    ELSE {}

\* C38: no step of data sync removes a row of a target table, and a target
\* row whose sync-key tuple is that of no reference row keeps its values;
\* the rows of the tables that are not being synced stay as they are.
C38_UnmatchedRowsKept ==
    [][InDataSync =>
          \A t \in DOMAIN prod_db :
              /\ t \in DOMAIN prod_db'
              /\ Len(prod_db'[t].rows) >= Len(prod_db[t].rows)
              /\ \A k \in DOMAIN prod_db[t].rows :
                    \/ prod_db'[t].rows[k] = prod_db[t].rows[k]
                    \/ /\ t = sync.table
                       /\ Project(prod_db[t].rows[k], sync.sync_key)
                             \in ReferenceKeys]_vars

\* an update changed the target row that a reference row matches and left
\* the other target row, which none matches, as it was
C38_Witness ==
    /\ pc = "done"
    /\ counters.updated = 1
    /\ "a" \in DOMAIN prod_db
    /\ prod_db["a"].rows = <<PairRow("1", "1"), PairRow("2", "2")>>
    /\ test_db["a"].rows = <<PairRow("1", "1")>>
====
